---- MODULE Spec2Model ----
(***************************************************************************)
(* Model of cerbernetix.toolbox.math.combination: the combinatorial number *)
(* system.  get_combination_rank and get_combination_from_rank are pure    *)
(* functions, modelled as operators that follow the loops of the code;     *)
(* get_combinations is a generator, modelled as a state machine whose      *)
(* steps are the calls of next() on the generator object.                  *)
(***************************************************************************)
EXTENDS Integers, Sequences, FiniteSets, TLC

\* ------------------------------------------------------------------ bounds
MaxLen == 3
MaxValue == 5
MaxOffset == 1
MaxRank == 20
MaxCount == 5
MaxStart == 2
MaxStep == 2

Offsets == (0 - MaxOffset)..MaxOffset
Elements == -1..MaxValue
Combinations == UNION {[1..k -> Elements] : k \in 0..MaxLen}

\* ------------------------------------------------------- library functions
\* math.comb(n, k) for n >= 0 and k >= 0: the exact binomial coefficient,
\* 0 when k > n.
RECURSIVE comb(_, _)
comb(n, k) ==
    IF k > n THEN 0
    ELSE IF k = 0 THEN 1
    ELSE (comb(n - 1, k - 1) * n) \div k

\* math.comb raises ValueError when one of its arguments is negative.
comb_raises(n, k) == n < 0 \/ k < 0

\* sorted(combination): insertion of each element in turn into an ascending list.
RECURSIVE insort(_, _)
insort(s, x) ==
    IF s = << >> THEN << x >>
    ELSE IF x < Head(s) THEN << x >> \o s
    ELSE << Head(s) >> \o insort(Tail(s), x)

RECURSIVE sorted(_)
sorted(s) ==
    IF s = << >> THEN << >>
    ELSE insort(sorted(SubSeq(s, 1, Len(s) - 1)), s[Len(s)])

\* ---------------------------------------------------- get_combination_rank
\* Mutants of the ranking loop: the binomial taken with the 0-based index
\* instead of index + 1; a negative value contributing 0 instead of raising;
\* every value contributing C(value + 1, index + 1).
RECURSIVE rank_loop_index(_, _, _, _)
rank_loop_index(s, offset, index, rank) ==
    IF index >= Len(s) THEN [err |-> "", val |-> rank]
    ELSE LET value == s[index + 1] - offset IN
         IF value = index THEN rank_loop_index(s, offset, index + 1, rank)
         ELSE IF comb_raises(value, index) THEN [err |-> "ValueError", val |-> 0]
         ELSE rank_loop_index(s, offset, index + 1, rank + comb(value, index))

RECURSIVE rank_loop_lenient(_, _, _, _)
rank_loop_lenient(s, offset, index, rank) ==
    IF index >= Len(s) THEN [err |-> "", val |-> rank]
    ELSE LET value == s[index + 1] - offset IN
         IF value = index \/ value < 0 THEN rank_loop_lenient(s, offset, index + 1, rank)
         ELSE rank_loop_lenient(s, offset, index + 1, rank + comb(value, index + 1))

RECURSIVE rank_loop_shifted(_, _, _, _)
rank_loop_shifted(s, offset, index, rank) ==
    IF index >= Len(s) THEN [err |-> "", val |-> rank]
    ELSE LET value == s[index + 1] - offset IN
         IF value = index THEN rank_loop_shifted(s, offset, index + 1, rank)
         ELSE IF comb_raises(value, index + 1) THEN [err |-> "ValueError", val |-> 0]
         ELSE rank_loop_shifted(s, offset, index + 1, rank + comb(value + 1, index + 1))

\* The body of the for loop over enumerate(sorted(combination)); index is the
\* 0-based position, s[index + 1] the value at that position.
RECURSIVE rank_loop(_, _, _, _)
rank_loop(s, offset, index, rank) ==
    IF index >= Len(s) THEN [err |-> "", val |-> rank]
    ELSE LET value == s[index + 1] - offset IN
         IF value = index THEN rank_loop(s, offset, index + 1, rank)
         ELSE IF comb_raises(value, index + 1) THEN [err |-> "ValueError", val |-> 0]
         ELSE rank_loop(s, offset, index + 1, rank + comb(value, index + 1))

\* Mutant: the combination is ranked in the order given, without sorting.
get_combination_rank_unsorted(combination, offset) ==
    rank_loop(combination, offset, 0, 0)

\* Mutants: the empty combination is rejected; the rank is counted from 1.
get_combination_rank_nonempty(combination, offset) ==
    IF combination = << >> THEN [err |-> "ValueError", val |-> 0]
    ELSE rank_loop(sorted(combination), offset, 0, 0)

get_combination_rank_from_one(combination, offset) ==
    rank_loop(sorted(combination), offset, 0, 1)

get_combination_rank(combination, offset) ==
    rank_loop(sorted(combination), offset, 0, 0)

\* ----------------------------------------------- get_combination_from_rank
\* Mutant of the first search loop: it stops one step early, on b < rank.
RECURSIVE first_loop_strict(_, _, _, _, _)
first_loop_strict(rank, length, val, binomial, b) ==
    IF b < rank
    THEN first_loop_strict(rank, length, val + 1, b, (b * (val + 1 + length)) \div (val + 1))
    ELSE [val |-> val, binomial |-> binomial]

\* while b <= rank: val += 1; binomial = b; b = (b * (val + length)) // val
RECURSIVE first_loop(_, _, _, _, _)
first_loop(rank, length, val, binomial, b) ==
    IF b <= rank
    THEN first_loop(rank, length, val + 1, b, (b * (val + 1 + length)) \div (val + 1))
    ELSE [val |-> val, binomial |-> binomial]

\* while binomial > rank: val -= 1; binomial = (binomial * val) // (val + index)
RECURSIVE inner_loop(_, _, _, _)
inner_loop(rank, index, val, binomial) ==
    IF binomial > rank
    THEN inner_loop(rank, index, val - 1, (binomial * (val - 1)) \div (val - 1 + index))
    ELSE [val |-> val, binomial |-> binomial]

\* Mutant of the for loop: the binomial of the next length is derived with
\* the factor index instead of index + 1.
RECURSIVE for_loop_factor(_, _, _, _, _, _)
for_loop_factor(index, rank, val, binomial, combination, offset) ==
    IF index <= 1
    THEN [rank |-> rank, val |-> val, binomial |-> binomial, combination |-> combination]
    ELSE LET rank1 == rank - binomial
             binomial1 == (binomial * index) \div (val + index)
             combination1 == [combination EXCEPT ![index + 1] = val + index + offset]
             w == inner_loop(rank1, index, val, binomial1)
         IN for_loop_factor(index - 1, rank1, w.val, w.binomial, combination1, offset)

\* for index in range(length - 1, 1, -1): ...
RECURSIVE for_loop(_, _, _, _, _, _)
for_loop(index, rank, val, binomial, combination, offset) ==
    IF index <= 1
    THEN [rank |-> rank, val |-> val, binomial |-> binomial, combination |-> combination]
    ELSE LET rank1 == rank - binomial
             binomial1 == (binomial * (index + 1)) \div (val + index)
             combination1 == [combination EXCEPT ![index + 1] = val + index + offset]
             w == inner_loop(rank1, index, val, binomial1)
         IN for_loop(index - 1, rank1, w.val, w.binomial, combination1, offset)

\* Mutant: the second element is stored as val + offset, without the + 1.
get_combination_from_rank_second(rank, length, offset) ==
    IF rank < 0 THEN [err |-> "ValueError", val |-> << >>]
    ELSE IF length < 0 THEN [err |-> "ValueError", val |-> << >>]
    ELSE IF length = 0 THEN [err |-> "", val |-> << >>]
    ELSE IF length = 1 THEN [err |-> "", val |-> << rank + offset >>]
    ELSE LET combination == [i \in 1..length |-> 0]
             f == first_loop(rank, length, 0, 0, 1)
             l == for_loop(length - 1, rank, f.val, f.binomial, combination, offset)
         IN [err |-> "",
             val |-> [l.combination EXCEPT ![2] = l.val + offset,
                                           ![1] = l.rank - l.binomial + offset]]

\* Mutants: length 0 with a rank other than 0 is rejected; the check of the
\* length is missing and every length <= 0 gives the empty list.
get_combination_from_rank_strict(rank, length, offset) ==
    IF rank < 0 THEN [err |-> "ValueError", val |-> << >>]
    ELSE IF length < 0 THEN [err |-> "ValueError", val |-> << >>]
    ELSE IF length = 0
    THEN IF rank = 0 THEN [err |-> "", val |-> << >>] ELSE [err |-> "ValueError", val |-> << >>]
    ELSE IF length = 1 THEN [err |-> "", val |-> << rank + offset >>]
    ELSE LET combination == [i \in 1..length |-> 0]
             f == first_loop(rank, length, 0, 0, 1)
             l == for_loop(length - 1, rank, f.val, f.binomial, combination, offset)
         IN [err |-> "",
             val |-> [l.combination EXCEPT ![2] = l.val + 1 + offset,
                                           ![1] = l.rank - l.binomial + offset]]

get_combination_from_rank_unchecked(rank, length, offset) ==
    IF rank < 0 THEN [err |-> "ValueError", val |-> << >>]
    ELSE IF length <= 0 THEN [err |-> "", val |-> << >>]
    ELSE IF length = 1 THEN [err |-> "", val |-> << rank + offset >>]
    ELSE LET combination == [i \in 1..length |-> 0]
             f == first_loop(rank, length, 0, 0, 1)
             l == for_loop(length - 1, rank, f.val, f.binomial, combination, offset)
         IN [err |-> "",
             val |-> [l.combination EXCEPT ![2] = l.val + 1 + offset,
                                           ![1] = l.rank - l.binomial + offset]]

get_combination_from_rank(rank, length, offset) ==
    IF rank < 0 THEN [err |-> "ValueError", val |-> << >>]
    ELSE IF length < 0 THEN [err |-> "ValueError", val |-> << >>]
    ELSE IF length = 0 THEN [err |-> "", val |-> << >>]
    ELSE IF length = 1 THEN [err |-> "", val |-> << rank + offset >>]
    ELSE LET combination == [i \in 1..length |-> 0]
             f == first_loop(rank, length, 0, 0, 1)
             l == for_loop(length - 1, rank, f.val, f.binomial, combination, offset)
         IN [err |-> "",
             val |-> [l.combination EXCEPT ![2] = l.val + 1 + offset,
                                           ![1] = l.rank - l.binomial + offset]]

\* --------------------------------------------------------- get_combinations
\* An optional argument: None, or a value.
None == [none |-> TRUE, val |-> 0]
Some(v) == [none |-> FALSE, val |-> v]

\* The value sources: a bare count n, a list of n values (1, 2, 4, ... as in
\* the examples of the documentation), a dictionary of n values under the keys
\* 100, 101, ...  A collection is the function from its keys to its values.
PowerOfTwo == [i \in 0..(MaxCount + 1) |-> IF i = 0 THEN 1 ELSE 2 ^ i]
IntSource(n) == [kind |-> "int", n |-> n, items |-> << >>]
ListSource(n) == [kind |-> "list", n |-> n, items |-> [i \in 0..(n - 1) |-> PowerOfTwo[i]]]
DictSource(n) == [kind |-> "dict", n |-> n, items |-> [i \in 100..(99 + n) |-> PowerOfTwo[i - 100]]]

\* The index tables: none, the positions in reverse order, the keys of the
\* dictionary.
NoIndexes == [none |-> TRUE, n |-> 0, items |-> << >>]
ReversedIndexes(n) == [none |-> FALSE, n |-> n, items |-> [i \in 0..(n - 1) |-> n - 1 - i]]
KeyIndexes(n) == [none |-> FALSE, n |-> n, items |-> [i \in 0..(n - 1) |-> 100 + i]]

\* list.__getitem__ / tuple.__getitem__ / dict.__getitem__ of an integer key.
getitem(kind, n, items, key) ==
    IF kind = "dict"
    THEN IF key \in DOMAIN items THEN [err |-> "", val |-> items[key]]
         ELSE [err |-> "KeyError", val |-> 0]
    ELSE IF 0 <= key /\ key < n THEN [err |-> "", val |-> items[key]]
    ELSE IF 0 - n <= key /\ key < 0 THEN [err |-> "", val |-> items[key + n]]
    ELSE [err |-> "IndexError", val |-> 0]

\* nb_values: the count itself, or len(values).
nb_values_of(values) == values.n

\* get_value and get_index as bound by the first lines of the body.
get_value(values, key) ==
    IF values.kind = "int" THEN [err |-> "", val |-> key]
    ELSE getitem(values.kind, values.n, values.items, key)

get_index(indexes, position) ==
    IF indexes.none THEN [err |-> "", val |-> position]
    ELSE getitem("list", indexes.n, indexes.items, position)

\* Mutant: an omitted stop becomes the last rank instead of the rank after it.
clamp_stop_last(stop, nb_comb) ==
    IF stop.none THEN nb_comb - 1
    ELSE IF stop.val > nb_comb THEN nb_comb ELSE stop.val

\* if stop is None or stop > nb_comb: stop = nb_comb
clamp_stop(stop, nb_comb) ==
    IF stop.none \/ stop.val > nb_comb THEN nb_comb ELSE stop.val

\* Mutant: a start past the last rank is clamped to the rank after the last.
clamp_start_past(start, nb_comb) ==
    IF start >= nb_comb THEN nb_comb ELSE start

\* if start >= nb_comb: start = nb_comb - 1
clamp_start(start, nb_comb) ==
    IF start >= nb_comb THEN nb_comb - 1 ELSE start

abs(x) == IF x < 0 THEN 0 - x ELSE x

\* Mutant: the step is used with the sign the caller gave it.
direct_step_kept(start, stop, step) == step

\* if start > stop: step = -abs(step) else: step = abs(step)
direct_step(start, stop, step) ==
    IF start > stop THEN 0 - abs(step) ELSE abs(step)

\* Mutant: the stop rank itself is walked too.
in_range_inclusive(rank, stop, step) ==
    IF step > 0 THEN rank <= stop ELSE rank >= stop

\* rank is an item of range(start, stop, step), given that it is
\* start + i * step for some i >= 0.
in_range(rank, stop, step) ==
    IF step > 0 THEN rank < stop ELSE rank > stop

\* Mutant: the position goes through the value source first, then through
\* the index table: get_index(get_value(position)) + offset.
translate_values_first(values, indexes, offset, position) ==
    LET v == get_value(values, position) IN
    IF v.err # "" THEN v
    ELSE LET i == get_index(indexes, v.val) IN
         IF i.err # "" THEN i
         ELSE [err |-> "", val |-> i.val + offset]

\* get_value(get_index(position)) + offset
translate(values, indexes, offset, position) ==
    LET i == get_index(indexes, position) IN
    IF i.err # "" THEN i
    ELSE LET v == get_value(values, i.val) IN
         IF v.err # "" THEN v
         ELSE [err |-> "", val |-> v.val + offset]

\* The body of the for loop: the combination of the rank, then the list
\* comprehension over its positions, evaluated from the first position on.
RECURSIVE translate_all(_, _, _, _, _)
translate_all(values, indexes, offset, combination, done) ==
    IF Len(done) = Len(combination) THEN [err |-> "", val |-> done]
    ELSE LET t == translate(values, indexes, offset, combination[Len(done) + 1]) IN
         IF t.err # "" THEN [err |-> t.err, val |-> << >>]
         ELSE translate_all(values, indexes, offset, combination, Append(done, t.val))

make_item(values, indexes, offset, length, rank) ==
    LET c == get_combination_from_rank(rank, length, 0) IN
    IF c.err # "" THEN c
    ELSE translate_all(values, indexes, offset, c.val, << >>)

\* Mutant: only the start is checked.
range_error_start_only(start, stop) == start < 0

\* if start < 0 or stop < -1: raise ValueError
range_error(start, stop) == start < 0 \/ stop < -1

\* Mutant: the space counts as degenerate only when both are 0.
degenerate_both(nb_values, length) == nb_values = 0 /\ length = 0

\* if nb_values == 0 or length == 0: return
degenerate(nb_values, length) == nb_values = 0 \/ length = 0

\* The locals of a body that has not run.
NoFrame == [start |-> 0, stop |-> 0, step |-> 0, rank |-> 0]

\* The for loop at frame.rank: past the end of the range the generator
\* returns; else the body raises, or yields the item of the rank.  The result
\* is the generator's next position, the exception and the items yielded.
loop_at(values, length, offset, indexes, frame) ==
    IF ~in_range(frame.rank, frame.stop, frame.step)
    THEN [pc |-> "done", err |-> "", items |-> << >>]
    ELSE LET item == make_item(values, indexes, offset, length, frame.rank) IN
         IF item.err # ""
         THEN [pc |-> "raised", err |-> item.err, items |-> << >>]
         ELSE [pc |-> "suspended", err |-> "", items |-> << item.val >>]

\* The first next() on the generator object: the body runs from its first
\* line to the first yield, to its return or to the exception it raises.
first_next(values, length, start, stop, step, offset, indexes) ==
    IF degenerate(nb_values_of(values), length)
    THEN [pc |-> "done", err |-> "", items |-> << >>, frame |-> NoFrame]
    ELSE IF comb_raises(nb_values_of(values), length)
    THEN [pc |-> "raised", err |-> "ValueError", items |-> << >>, frame |-> NoFrame]
    ELSE LET nb_comb == comb(nb_values_of(values), length)
             stop1 == clamp_stop(stop, nb_comb)
             start1 == clamp_start(start, nb_comb)
             step1 == direct_step(start1, stop1, step)
             frame == [start |-> start1, stop |-> stop1, step |-> step1, rank |-> start1]
         IN IF range_error(start1, stop1)
            THEN [pc |-> "raised", err |-> "ValueError", items |-> << >>,
                  frame |-> [frame EXCEPT !.step = step]]
            ELSE IF step1 = 0
            THEN [pc |-> "raised", err |-> "ValueError", items |-> << >>, frame |-> frame]
            ELSE LET l == loop_at(values, length, offset, indexes, frame) IN
                 [pc |-> l.pc, err |-> l.err, items |-> l.items, frame |-> frame]

\* The rank range() gives after frame.rank.
next_rank(frame) == frame.rank + frame.step

\* A later next(): the body resumes after the yield, range() gives the next
\* rank or ends (rank then keeps its last value).
later_next(values, length, offset, indexes, frame) ==
    LET frame1 == [frame EXCEPT !.rank = next_rank(frame)]
        l == loop_at(values, length, offset, indexes, frame1)
    IN [pc |-> l.pc, err |-> l.err, items |-> l.items,
        frame |-> IF in_range(frame1.rank, frame1.stop, frame1.step) THEN frame1 ELSE frame]

\* ------------------------------------------------------------------- state
VARIABLES
    f_name,         \* the function called: its name ("none": no call)
    f_pc,           \* "call": about to run, "return": returned, "raise": raised
    a_combination,  \* get_combination_rank: the combination argument
    a_rank,         \* get_combination_from_rank: the rank argument
    a_length,       \* get_combination_from_rank: the length argument
    a_offset,       \* the offset argument of either function
    r_rank,         \* the rank returned by get_combination_rank
    r_combination,  \* the list returned by get_combination_from_rank
    g_pc,           \* the generator object: "none", "created", "suspended" (at
                    \* the yield), "done" (returned) or "raised"
    g_values,       \* get_combinations: the values argument
    g_length,       \* the length argument
    g_start,        \* the start argument
    g_stop,         \* the stop argument (None or a rank)
    g_step,         \* the step argument
    g_offset,       \* the offset argument
    g_indexes,      \* the indexes argument (NoIndexes or a table)
    g_frame,        \* the locals start, stop, step and rank of the running body
    g_err,          \* the exception the body raised
    g_yielded,      \* the lists yielded so far, in order
    enumerators,    \* generator objects of further get_combinations calls
    u_pc,           \* get_combination_from_rank run step by step: "none",
                    \* "first_loop", "for_loop", "inner_loop" or "end"
    u_rank,         \* its local rank
    u_val,          \* its local val
    u_b,            \* its local b
    u_binomial,     \* its local binomial
    u_index,        \* its local index
    u_combination,  \* its local combination
    heap,           \* the list objects the functions created, by identity
    held,           \* the identities of the lists handed to the caller, in order
    a_max_value,    \* get_combination_index, get_combination_from_index: max_value
    clock,          \* time.monotonic_ns()
    ts_start,       \* Timer._ts_start
    ts_last,        \* Timer._ts_last
    ts_stop,        \* Timer._ts_stop (None or a timestamp)
    checkpoints,    \* Timer._checkpoints
    t_op,           \* the last method called on the timer ("none": no timer)
    t_ret,          \* what it returned
    m_file,         \* FileManager._file (None or the identity of a file handle)
    handles,        \* the file handles builtins.open returned, by identity
    m_depth,        \* with-blocks of the manager entered and not left
    m_op,           \* the last method called on the manager ("none": no manager)
    m_err,          \* the exception it raised ("": it returned)
    o_value,        \* ConfigOption._value (None or a value)
    o_default,      \* ConfigOption._default
    o_choices,      \* ConfigOption._choices
    o_op,           \* the last method called on the option ("none": no option)
    o_err           \* the exception it raised ("": it returned)

fvars == << f_name, f_pc, a_combination, a_rank, a_length, a_offset, r_rank, r_combination >>
gargs == << g_values, g_length, g_start, g_stop, g_step, g_offset, g_indexes >>
gvars == << g_pc, gargs, g_frame, g_err, g_yielded >>
pvars == << enumerators >>
uvars == << u_pc, u_rank, u_val, u_b, u_binomial, u_index, u_combination >>
hvars == << heap, held >>
lvars == << a_max_value >>
tvars == << clock, ts_start, ts_last, ts_stop, checkpoints, t_op, t_ret >>
mvars == << m_file, handles, m_depth, m_op, m_err >>
cvars == << o_value, o_default, o_choices, o_op, o_err >>
xvars == << hvars, lvars, tvars, mvars, cvars >>
ovars == << uvars, xvars >>
vars == << fvars, gvars, pvars, ovars >>

NoUnrank ==
    /\ u_pc = "none"
    /\ u_rank = 0
    /\ u_val = 0
    /\ u_b = 0
    /\ u_binomial = 0
    /\ u_index = 0
    /\ u_combination = << >>

NoHeap == heap = << >> /\ held = << >>

NoLegacy == a_max_value = 0

NoTimer ==
    /\ clock = 0
    /\ ts_start = 0
    /\ ts_last = 0
    /\ ts_stop = [none |-> TRUE, val |-> 0]
    /\ checkpoints = << >>
    /\ t_op = "none"
    /\ t_ret = 0

NoFileManager ==
    /\ m_file = [none |-> TRUE, val |-> 0]
    /\ handles = << >>
    /\ m_depth = 0
    /\ m_op = "none"
    /\ m_err = ""

NoOption ==
    /\ o_value = [none |-> TRUE, val |-> 0]
    /\ o_default = [none |-> TRUE, val |-> 0]
    /\ o_choices = {}
    /\ o_op = "none"
    /\ o_err = ""

\* No object other than the list objects.
NoExtras == NoLegacy /\ NoTimer /\ NoFileManager /\ NoOption

NoObjects == NoUnrank /\ NoHeap /\ NoExtras

NoGenerator ==
    /\ g_pc = "none"
    /\ g_values = IntSource(0)
    /\ g_length = 0
    /\ g_start = 0
    /\ g_stop = None
    /\ g_step = 0
    /\ g_offset = 0
    /\ g_indexes = NoIndexes
    /\ g_frame = NoFrame
    /\ g_err = ""
    /\ g_yielded = << >>
    /\ enumerators = << >>

NoCall ==
    /\ f_name = "none"
    /\ f_pc = "none"
    /\ a_combination = << >>
    /\ a_offset = 0
    /\ a_rank = 0
    /\ a_length = 0
    /\ r_rank = 0
    /\ r_combination = << >>

InitRank ==
    /\ f_name = "get_combination_rank"
    /\ f_pc = "call"
    /\ a_combination \in Combinations
    /\ a_offset \in Offsets
    /\ a_rank = 0
    /\ a_length = 0
    /\ r_rank = 0
    /\ r_combination = << >>
    /\ NoGenerator
    /\ NoObjects

InitFromRank ==
    /\ f_name = "get_combination_from_rank"
    /\ f_pc = "call"
    /\ a_combination = << >>
    /\ a_offset \in Offsets
    /\ a_rank \in -1..MaxRank
    /\ a_length \in -1..MaxLen
    /\ r_rank = 0
    /\ r_combination = << >>
    /\ NoGenerator
    /\ NoObjects

Init == InitRank \/ InitFromRank

CallGetCombinationRank ==
    /\ f_name = "get_combination_rank"
    /\ f_pc = "call"
    /\ LET r == get_combination_rank(a_combination, a_offset) IN
        /\ f_pc' = IF r.err = "" THEN "return" ELSE "raise"
        /\ r_rank' = r.val
    /\ UNCHANGED << f_name, a_combination, a_rank, a_length, a_offset, r_combination, gvars, pvars, ovars >>

CallGetCombinationFromRank ==
    /\ f_name = "get_combination_from_rank"
    /\ f_pc = "call"
    /\ LET r == get_combination_from_rank(a_rank, a_length, a_offset) IN
        /\ f_pc' = IF r.err = "" THEN "return" ELSE "raise"
        /\ r_combination' = r.val
    /\ UNCHANGED << f_name, a_combination, a_rank, a_length, a_offset, r_rank, gvars, pvars, ovars >>

Next == CallGetCombinationRank \/ CallGetCombinationFromRank

Spec == Init /\ [][Next]_vars

\* The generator.  Init draws the arguments of a call.  Windows of every
\* kind are drawn over the bare counts; every value source and index table is
\* drawn with the first windows.
Counts == 0..MaxCount
Lengths == -1..MaxCount
Starts(nb_comb) == (-1..MaxStart) \cup {nb_comb - 1, nb_comb, nb_comb + 1}
Stops(nb_comb) ==
    {None} \cup {Some(v) : v \in (-2..MaxStart) \cup {nb_comb - 1, nb_comb, nb_comb + 1}}
Steps == (0 - MaxStep)..MaxStep

Sources ==
    UNION {{ << IntSource(n), NoIndexes >>, << IntSource(n), ReversedIndexes(n) >>,
             << ListSource(n), NoIndexes >>, << ListSource(n), ReversedIndexes(n) >>,
             << DictSource(n), KeyIndexes(n) >>, << DictSource(n), NoIndexes >> } : n \in Counts}

InitWindow ==
    /\ NoCall
    /\ NoObjects
    /\ enumerators = << >>
    /\ g_pc = "call"
    /\ g_values \in {IntSource(n) : n \in Counts}
    /\ g_length \in Lengths
    /\ g_start \in Starts(IF g_length < 0 THEN 0 ELSE comb(g_values.n, g_length))
    /\ g_stop \in Stops(IF g_length < 0 THEN 0 ELSE comb(g_values.n, g_length))
    /\ g_step \in Steps
    /\ g_offset = 0
    /\ g_indexes = NoIndexes
    /\ g_frame = NoFrame
    /\ g_err = ""
    /\ g_yielded = << >>

InitSource ==
    /\ NoCall
    /\ NoObjects
    /\ enumerators = << >>
    /\ g_pc = "call"
    /\ \E pair \in Sources :
        /\ g_values = pair[1]
        /\ g_indexes = pair[2]
    /\ g_length \in Lengths
    /\ g_start \in 0..1
    /\ g_stop = None
    /\ g_step = 1
    /\ g_offset \in Offsets
    /\ g_frame = NoFrame
    /\ g_err = ""
    /\ g_yielded = << >>

InitEnum == InitWindow \/ InitSource

\* Mutant: the call checks its arguments itself and raises what the first
\* next() would raise before yielding.
CallGetCombinationsEager ==
    /\ g_pc = "call"
    /\ LET r == first_next(g_values, g_length, g_start, g_stop, g_step, g_offset, g_indexes) IN
        /\ g_pc' = IF r.err = "ValueError" THEN "raised" ELSE "created"
        /\ g_err' = IF r.err = "ValueError" THEN r.err ELSE g_err
    /\ UNCHANGED << fvars, gargs, g_frame, g_yielded, pvars, ovars >>

\* The call get_combinations(...): none of the body runs, the call returns
\* the generator object.
CallGetCombinations ==
    /\ g_pc = "call"
    /\ g_pc' = "created"
    /\ UNCHANGED << fvars, gargs, g_frame, g_err, g_yielded, pvars, ovars >>

\* The first next() on the generator object.
GeneratorFirstNext ==
    /\ g_pc = "created"
    /\ LET r == first_next(g_values, g_length, g_start, g_stop, g_step, g_offset, g_indexes) IN
        /\ g_pc' = r.pc
        /\ g_frame' = r.frame
        /\ g_err' = r.err
        /\ g_yielded' = g_yielded \o r.items
    /\ UNCHANGED << fvars, gargs, pvars, ovars >>

\* A later next() on the generator object.
GeneratorNext ==
    /\ g_pc = "suspended"
    /\ LET r == later_next(g_values, g_length, g_offset, g_indexes, g_frame) IN
        /\ g_pc' = r.pc
        /\ g_frame' = r.frame
        /\ g_err' = r.err
        /\ g_yielded' = g_yielded \o r.items
    /\ UNCHANGED << fvars, gargs, pvars, ovars >>

NextEnum == CallGetCombinations \/ GeneratorFirstNext \/ GeneratorNext

SpecEnum == InitEnum /\ [][NextEnum]_vars

\* Two generator objects of two get_combinations calls with equal arguments:
\* the first is the g_ object, the second is enumerators[1].  Each object keeps
\* its own frame (the locals start, stop, step and rank of its body).
PairSources ==
    UNION {{ << IntSource(n), NoIndexes >>, << ListSource(n), ReversedIndexes(n) >>,
             << DictSource(n), NoIndexes >> } : n \in Counts}

InitPair ==
    /\ NoCall
    /\ NoObjects
    /\ enumerators = << >>
    /\ g_pc = "call"
    /\ \E pair \in PairSources :
        /\ g_values = pair[1]
        /\ g_indexes = pair[2]
    /\ g_length \in Lengths
    /\ g_start \in -1..MaxStart
    /\ g_stop \in {None, Some(MaxStart)}
    /\ g_step \in {-1, 1, MaxStep}
    /\ g_offset = 0
    /\ g_frame = NoFrame
    /\ g_err = ""
    /\ g_yielded = << >>

NewEnumerator == [pc |-> "created", frame |-> NoFrame, err |-> "", yielded |-> << >>]

\* A second call get_combinations(...) with the arguments of the first: it
\* returns another generator object.
CallGetCombinationsAgain ==
    /\ g_pc # "call"
    /\ enumerators = << >>
    /\ enumerators' = << NewEnumerator >>
    /\ UNCHANGED << fvars, gvars, ovars >>

\* The first next() on a further generator object.
EnumeratorFirstNext ==
    \E i \in DOMAIN enumerators :
        /\ enumerators[i].pc = "created"
        /\ LET r == first_next(g_values, g_length, g_start, g_stop, g_step, g_offset, g_indexes) IN
            enumerators' = [enumerators EXCEPT ![i] =
                [pc |-> r.pc, frame |-> r.frame, err |-> r.err, yielded |-> @.yielded \o r.items]]
        /\ UNCHANGED << fvars, gvars, ovars >>

\* Mutant: the loop variable is shared, a further generator object resumes
\* from the frame of the first one.
EnumeratorNextShared ==
    \E i \in DOMAIN enumerators :
        /\ enumerators[i].pc = "suspended"
        /\ LET r == later_next(g_values, g_length, g_offset, g_indexes,
                               IF g_pc = "suspended" THEN g_frame ELSE enumerators[i].frame) IN
            enumerators' = [enumerators EXCEPT ![i] =
                [pc |-> r.pc, frame |-> r.frame, err |-> r.err, yielded |-> @.yielded \o r.items]]
        /\ UNCHANGED << fvars, gvars, ovars >>

\* A later next() on a further generator object.
EnumeratorNext ==
    \E i \in DOMAIN enumerators :
        /\ enumerators[i].pc = "suspended"
        /\ LET r == later_next(g_values, g_length, g_offset, g_indexes, enumerators[i].frame) IN
            enumerators' = [enumerators EXCEPT ![i] =
                [pc |-> r.pc, frame |-> r.frame, err |-> r.err, yielded |-> @.yielded \o r.items]]
        /\ UNCHANGED << fvars, gvars, ovars >>

NextPair ==
    \/ CallGetCombinations
    \/ GeneratorFirstNext
    \/ GeneratorNext
    \/ CallGetCombinationsAgain
    \/ EnumeratorFirstNext
    \/ EnumeratorNext

SpecPair == InitPair /\ [][NextPair]_vars

\* Workers: m generator objects of the calls
\* get_combinations(n, k, start=b_i, stop=b_{i+1}), one per worker, pulled in
\* any order.  The g_ variables hold the arguments the calls share; each
\* worker's own start, stop and generator object are in enumerators[i].
MaxWorkers == 3

RECURSIVE SortedCuts(_)
SortedCuts(S) ==
    IF S = {} THEN << >>
    ELSE LET low == CHOOSE x \in S : \A y \in S : x <= y
         IN << low >> \o SortedCuts(S \ {low})

\* The cut points 0 = b0 < b1 < ... < bm = nb_comb with m <= MaxWorkers.
CutPoints(nb_comb) ==
    {SortedCuts({0, nb_comb} \cup S) :
        S \in {T \in SUBSET (1..(nb_comb - 1)) : Cardinality(T) < MaxWorkers}}

NewWorker(start, stop) ==
    [pc |-> "call", start |-> start, stop |-> stop,
     frame |-> NoFrame, err |-> "", yielded |-> << >>]

InitWorkers ==
    /\ NoCall
    /\ NoObjects
    /\ g_pc = "none"
    /\ g_values \in {IntSource(n) : n \in 1..(MaxLen + 1)}
    /\ g_length \in {k \in 1..MaxLen : k <= g_values.n}
    /\ g_start = 0
    /\ g_stop = None
    /\ g_step = 1
    /\ g_offset = 0
    /\ g_indexes = NoIndexes
    /\ g_frame = NoFrame
    /\ g_err = ""
    /\ g_yielded = << >>
    /\ \E cuts \in CutPoints(comb(g_values.n, g_length)) :
        enumerators = [i \in 1..(Len(cuts) - 1) |-> NewWorker(cuts[i], cuts[i + 1])]

\* Worker i calls get_combinations(n, k, start=b_i, stop=b_{i+1}).
WorkerCall ==
    \E i \in DOMAIN enumerators :
        /\ enumerators[i].pc = "call"
        /\ enumerators' = [enumerators EXCEPT ![i].pc = "created"]
        /\ UNCHANGED << fvars, gvars, ovars >>

\* The first next() of worker i on its generator object.
WorkerFirstNext ==
    \E i \in DOMAIN enumerators :
        /\ enumerators[i].pc = "created"
        /\ LET e == enumerators[i]
               r == first_next(g_values, g_length, e.start, Some(e.stop), g_step,
                               g_offset, g_indexes)
           IN enumerators' = [enumerators EXCEPT ![i] =
                  [e EXCEPT !.pc = r.pc, !.frame = r.frame, !.err = r.err,
                            !.yielded = e.yielded \o r.items]]
        /\ UNCHANGED << fvars, gvars, ovars >>

\* A later next() of worker i on its generator object.
WorkerNext ==
    \E i \in DOMAIN enumerators :
        /\ enumerators[i].pc = "suspended"
        /\ LET e == enumerators[i]
               r == later_next(g_values, g_length, g_offset, g_indexes, e.frame)
           IN enumerators' = [enumerators EXCEPT ![i] =
                  [e EXCEPT !.pc = r.pc, !.frame = r.frame, !.err = r.err,
                            !.yielded = e.yielded \o r.items]]
        /\ UNCHANGED << fvars, gvars, ovars >>

NextWorkers == WorkerCall \/ WorkerFirstNext \/ WorkerNext

SpecWorkers == InitWorkers /\ [][NextWorkers]_vars

\* ------------------------------ get_combination_from_rank, statement by
\* statement: the call runs its checks, then one action per iteration of each
\* loop; the locals are the u_ variables.
fargs == << f_name, a_combination, a_rank, a_length, a_offset >>

InitUnrank ==
    /\ f_name = "get_combination_from_rank"
    /\ f_pc = "call"
    /\ a_combination = << >>
    /\ a_offset \in Offsets
    /\ a_rank \in -1..MaxRank
    /\ a_length \in Lengths
    /\ r_rank = 0
    /\ r_combination = << >>
    /\ NoGenerator
    /\ NoObjects

\* The checks and the early returns, then the initialisation of the locals.
UnrankEnter ==
    /\ f_name = "get_combination_from_rank"
    /\ f_pc = "call"
    /\ u_pc = "none"
    /\ IF a_rank < 0 \/ a_length < 0
       THEN /\ f_pc' = "raise"
            /\ UNCHANGED << r_combination, uvars >>
       ELSE IF a_length = 0
       THEN /\ f_pc' = "return"
            /\ r_combination' = << >>
            /\ UNCHANGED uvars
       ELSE IF a_length = 1
       THEN /\ f_pc' = "return"
            /\ r_combination' = << a_rank + a_offset >>
            /\ UNCHANGED uvars
       ELSE /\ u_pc' = "first_loop"
            /\ u_rank' = a_rank
            /\ u_combination' = [i \in 1..a_length |-> 0]
            /\ u_binomial' = 0
            /\ u_val' = 0
            /\ u_b' = 1
            /\ UNCHANGED << f_pc, r_combination, u_index >>
    /\ UNCHANGED << fargs, r_rank, gvars, pvars, xvars >>

\* Mutant: b is updated before binomial takes its value.
FirstLoopIterateSwapped ==
    /\ u_pc = "first_loop"
    /\ u_b <= u_rank
    /\ u_val' = u_val + 1
    /\ u_b' = (u_b * (u_val' + a_length)) \div u_val'
    /\ u_binomial' = u_b'
    /\ UNCHANGED << fvars, gvars, pvars, xvars, u_pc, u_rank, u_index, u_combination >>

\* Mutant: the body of the first loop changes nothing.
FirstLoopIterateStuck ==
    /\ u_pc = "first_loop"
    /\ u_b <= u_rank
    /\ UNCHANGED vars

\* while b <= rank: val += 1; binomial = b; b = (b * (val + length)) // val
FirstLoopIterate ==
    /\ u_pc = "first_loop"
    /\ u_b <= u_rank
    /\ u_val' = u_val + 1
    /\ u_binomial' = u_b
    /\ u_b' = (u_b * (u_val' + a_length)) \div u_val'
    /\ UNCHANGED << fvars, gvars, pvars, xvars, u_pc, u_rank, u_index, u_combination >>

\* The first loop ends; range(length - 1, 1, -1) starts at length - 1.
FirstLoopExit ==
    /\ u_pc = "first_loop"
    /\ u_b > u_rank
    /\ u_pc' = "for_loop"
    /\ u_index' = a_length - 1
    /\ UNCHANGED << fvars, gvars, pvars, xvars, u_rank, u_val, u_b, u_binomial, u_combination >>

\* The body of the for loop up to its inner while.
ForLoopIterate ==
    /\ u_pc = "for_loop"
    /\ u_index > 1
    /\ u_rank' = u_rank - u_binomial
    /\ u_binomial' = (u_binomial * (u_index + 1)) \div (u_val + u_index)
    /\ u_combination' = [u_combination EXCEPT ![u_index + 1] = u_val + u_index + a_offset]
    /\ u_pc' = "inner_loop"
    /\ UNCHANGED << fvars, gvars, pvars, xvars, u_val, u_b, u_index >>

\* while binomial > rank: val -= 1; binomial = (binomial * val) // (val + index)
InnerLoopIterate ==
    /\ u_pc = "inner_loop"
    /\ u_binomial > u_rank
    /\ u_val' = u_val - 1
    /\ u_binomial' = (u_binomial * u_val') \div (u_val' + u_index)
    /\ UNCHANGED << fvars, gvars, pvars, xvars, u_pc, u_rank, u_b, u_index, u_combination >>

\* The inner while ends; the for loop takes the next index.
InnerLoopExit ==
    /\ u_pc = "inner_loop"
    /\ u_binomial <= u_rank
    /\ u_pc' = "for_loop"
    /\ u_index' = u_index - 1
    /\ UNCHANGED << fvars, gvars, pvars, xvars, u_rank, u_val, u_b, u_binomial, u_combination >>

\* The for loop ends: combination[1], combination[0], return combination.
ForLoopExit ==
    /\ u_pc = "for_loop"
    /\ u_index <= 1
    /\ u_combination' = [u_combination EXCEPT ![2] = u_val + 1 + a_offset,
                                              ![1] = u_rank - u_binomial + a_offset]
    /\ r_combination' = u_combination'
    /\ u_pc' = "end"
    /\ f_pc' = "return"
    /\ UNCHANGED << fargs, r_rank, gvars, pvars, xvars, u_rank, u_val, u_b, u_binomial, u_index >>

NextUnrank ==
    \/ UnrankEnter
    \/ FirstLoopIterate
    \/ FirstLoopExit
    \/ ForLoopIterate
    \/ InnerLoopIterate
    \/ InnerLoopExit
    \/ ForLoopExit

SpecUnrank == InitUnrank /\ [][NextUnrank]_vars

\* ------------------------------ the generator pulled again and again, its
\* calls of get_combination_from_rank run statement by statement.  While the
\* body is inside such a call g_pc is "calling" and f_name, f_pc, the a_ and
\* the u_ variables are those of the call.
InitTermination ==
    /\ NoCall
    /\ NoObjects
    /\ enumerators = << >>
    /\ g_pc = "call"
    /\ g_values \in {IntSource(n) : n \in Counts} \cup {DictSource(n) : n \in Counts}
    /\ g_indexes = NoIndexes
    /\ g_length \in Lengths
    /\ g_start \in {-1, 0, MaxStart}
    /\ g_stop \in {None, Some(-2), Some(-1), Some(MaxStart)}
    /\ g_step \in Steps
    /\ g_offset = 0
    /\ g_frame = NoFrame
    /\ g_err = ""
    /\ g_yielded = << >>

\* The body up to the for loop: how it goes on and the locals it set.
body_head(values, length, start, stop, step) ==
    IF degenerate(nb_values_of(values), length)
    THEN [pc |-> "done", err |-> "", frame |-> NoFrame]
    ELSE IF comb_raises(nb_values_of(values), length)
    THEN [pc |-> "raised", err |-> "ValueError", frame |-> NoFrame]
    ELSE LET nb_comb == comb(nb_values_of(values), length)
             stop1 == clamp_stop(stop, nb_comb)
             start1 == clamp_start(start, nb_comb)
             step1 == direct_step(start1, stop1, step)
             frame == [start |-> start1, stop |-> stop1, step |-> step1, rank |-> start1]
         IN IF range_error(start1, stop1)
            THEN [pc |-> "raised", err |-> "ValueError", frame |-> [frame EXCEPT !.step = step]]
            ELSE IF step1 = 0
            THEN [pc |-> "raised", err |-> "ValueError", frame |-> frame]
            ELSE [pc |-> IF in_range(start1, stop1, step1) THEN "calling" ELSE "done",
                  err |-> "", frame |-> frame]

\* combination = get_combination_from_rank(rank, length): the call starts.
CallFromBody(rank) ==
    /\ f_name' = "get_combination_from_rank"
    /\ f_pc' = "call"
    /\ a_rank' = rank
    /\ a_length' = g_length
    /\ a_offset' = 0
    /\ UNCHANGED << a_combination, r_rank, r_combination >>

\* The first next(): the body runs up to its first call of
\* get_combination_from_rank, or ends before it.
BodyStart ==
    /\ g_pc = "created"
    /\ LET head == body_head(g_values, g_length, g_start, g_stop, g_step) IN
        /\ g_pc' = head.pc
        /\ g_err' = head.err
        /\ g_frame' = head.frame
        /\ IF head.pc = "calling" THEN CallFromBody(head.frame.rank) ELSE UNCHANGED fvars
    /\ UNCHANGED << gargs, g_yielded, pvars, ovars >>

\* A later next(): range() gives the next rank and the body calls
\* get_combination_from_rank with it, or the loop ends.
BodyResume ==
    /\ g_pc = "suspended"
    /\ LET frame1 == [g_frame EXCEPT !.rank = next_rank(g_frame)] IN
        IF in_range(frame1.rank, frame1.stop, frame1.step)
        THEN /\ g_pc' = "calling"
             /\ g_frame' = frame1
             /\ CallFromBody(frame1.rank)
        ELSE /\ g_pc' = "done"
             /\ UNCHANGED << g_frame, fvars >>
    /\ UNCHANGED << gargs, g_err, g_yielded, pvars, ovars >>

\* The call ended: its exception leaves the body, or the list comprehension
\* translates the combination returned and the body yields it.
BodyYield ==
    /\ g_pc = "calling"
    /\ f_pc \in {"return", "raise"}
    /\ LET item == IF f_pc = "raise" THEN [err |-> "ValueError", val |-> << >>]
                   ELSE translate_all(g_values, g_indexes, g_offset, r_combination, << >>)
       IN /\ g_pc' = IF item.err # "" THEN "raised" ELSE "suspended"
          /\ g_err' = item.err
          /\ g_yielded' = IF item.err # "" THEN g_yielded ELSE Append(g_yielded, item.val)
    /\ f_name' = "none"
    /\ f_pc' = "none"
    /\ a_rank' = 0
    /\ a_length' = 0
    /\ r_combination' = << >>
    /\ u_pc' = "none"
    /\ u_rank' = 0
    /\ u_val' = 0
    /\ u_b' = 0
    /\ u_binomial' = 0
    /\ u_index' = 0
    /\ u_combination' = << >>
    /\ UNCHANGED << a_combination, a_offset, r_rank, gargs, g_frame, pvars, xvars >>

NextTermination ==
    \/ CallGetCombinations
    \/ BodyStart
    \/ BodyResume
    \/ BodyYield
    \/ NextUnrank

SpecTermination ==
    InitTermination /\ [][NextTermination]_vars /\ WF_vars(NextTermination)

\* The body step by step, without the fairness: a count, or a list of n
\* values behind an index table of n positions, and a window that may start
\* or stop around the last rank.
InitBody ==
    /\ NoCall
    /\ NoObjects
    /\ enumerators = << >>
    /\ g_pc = "call"
    /\ \E n \in Counts :
        \/ g_values = IntSource(n) /\ g_indexes = NoIndexes
        \/ g_values = ListSource(n) /\ g_indexes = ReversedIndexes(n)
    /\ g_length \in Lengths
    /\ g_start \in {-1, 0, MaxStart, 1 + (IF g_length < 0 THEN 0 ELSE comb(g_values.n, g_length))}
    /\ g_stop \in {None, Some(-2), Some(-1), Some(MaxStart),
                   Some(1 + (IF g_length < 0 THEN 0 ELSE comb(g_values.n, g_length)))}
    /\ g_step \in Steps
    /\ g_offset = 0
    /\ g_frame = NoFrame
    /\ g_err = ""
    /\ g_yielded = << >>

SpecBody == InitBody /\ [][NextTermination]_vars

\* ------------------------------ the list objects.  heap holds every list the
\* functions create and, in a call of get_combination_rank, the caller's
\* combination as its first object; held are the identities of the lists the
\* caller was given, which it may change as it likes.

\* Mutant: the list handed over last is filled again and handed over again.
new_list_shared(objects, content) ==
    IF objects = << >> THEN Append(objects, content)
    ELSE [objects EXCEPT ![Len(objects)] = content]

\* A list display, a list comprehension, [0] * length or sorted(...): a new
\* list object, its identity is the last one of the heap.
new_list(objects, content) == Append(objects, content)

InitEffects ==
    /\ NoUnrank
    /\ NoExtras
    /\ held = << >>
    /\ enumerators = << >>
    /\ \/ /\ f_name = "get_combination_rank"
          /\ f_pc = "call"
          /\ a_combination \in Combinations
          /\ a_offset \in Offsets
          /\ a_rank = 0
          /\ a_length = 0
          /\ r_rank = 0
          /\ r_combination = << >>
          /\ heap = << a_combination >>
          /\ NoGenerator
       \/ /\ f_name = "get_combination_from_rank"
          /\ f_pc = "call"
          /\ a_combination = << >>
          /\ a_offset \in Offsets
          /\ a_rank \in 0..MaxStart
          /\ a_length \in 0..MaxLen
          /\ r_rank = 0
          /\ r_combination = << >>
          /\ heap = << >>
          /\ NoGenerator
       \/ /\ NoCall
          /\ g_pc = "call"
          /\ \E pair \in {<< IntSource(MaxLen), NoIndexes >>,
                          << ListSource(MaxLen), ReversedIndexes(MaxLen) >>} :
              /\ g_values = pair[1]
              /\ g_indexes = pair[2]
          /\ g_length \in 0..MaxLen
          /\ g_start \in 0..1
          /\ g_stop = None
          /\ g_step = 1
          /\ g_offset \in Offsets
          /\ g_frame = NoFrame
          /\ g_err = ""
          /\ g_yielded = << >>
          /\ heap = << >>

\* get_combination_rank(combination, offset): sorted(combination) is a new
\* list, the caller's list (the first object) is only read.
EffectsRank ==
    /\ f_name = "get_combination_rank"
    /\ f_pc = "call"
    /\ heap' = new_list(heap, sorted(heap[1]))
    /\ LET r == rank_loop(heap'[Len(heap')], a_offset, 0, 0) IN
        /\ f_pc' = IF r.err = "" THEN "return" ELSE "raise"
        /\ r_rank' = r.val
    /\ UNCHANGED << fargs, a_rank, a_length, r_combination, gvars, pvars, uvars, held, lvars, tvars, mvars, cvars >>

\* get_combination_from_rank(rank, length, offset), called once and then once
\* more with the same arguments: the list returned is a new one.
EffectsFromRank ==
    /\ f_name = "get_combination_from_rank"
    /\ f_pc \in {"call", "return"}
    /\ Len(held) < 2
    /\ LET r == get_combination_from_rank(a_rank, a_length, a_offset) IN
        /\ f_pc' = IF r.err = "" THEN "return" ELSE "raise"
        /\ r_combination' = r.val
        /\ heap' = IF r.err = "" THEN new_list(heap, r.val) ELSE heap
        /\ held' = IF r.err = "" THEN Append(held, Len(heap')) ELSE held
    /\ UNCHANGED << fargs, a_rank, a_length, r_rank, gvars, pvars, uvars, lvars, tvars, mvars, cvars >>

\* A next() on the generator object: the list comprehension of the yield
\* builds a new list.
EffectsNext ==
    /\ g_pc \in {"created", "suspended"}
    /\ LET r == IF g_pc = "created"
                THEN first_next(g_values, g_length, g_start, g_stop, g_step, g_offset, g_indexes)
                ELSE later_next(g_values, g_length, g_offset, g_indexes, g_frame)
       IN /\ g_pc' = r.pc
          /\ g_frame' = r.frame
          /\ g_err' = r.err
          /\ g_yielded' = g_yielded \o r.items
          /\ heap' = IF r.items = << >> THEN heap ELSE new_list(heap, r.items[1])
          /\ held' = IF r.items = << >> THEN held ELSE Append(held, Len(heap'))
    /\ UNCHANGED << fvars, gargs, pvars, uvars, lvars, tvars, mvars, cvars >>

\* The caller empties one of the lists it was given.
CallerMutates ==
    /\ \E i \in DOMAIN held :
        /\ heap[held[i]] # << >>
        /\ heap' = [heap EXCEPT ![held[i]] = << >>]
    /\ UNCHANGED << fvars, gvars, pvars, uvars, held, lvars, tvars, mvars, cvars >>

NextEffects ==
    \/ EffectsRank
    \/ EffectsFromRank
    \/ CallGetCombinations
    \/ EffectsNext
    \/ CallerMutates

SpecEffects == InitEffects /\ [][NextEffects]_vars

\* ------------------------------------------------------------------ Timer
\* One Timer object and the clock it reads.  The clock advances between the
\* calls; a call reads it once.
MaxClock == 3

\* The other objects of the module, which a Timer never touches.
besideTimer == << fvars, gvars, pvars, uvars, hvars, lvars, mvars, cvars >>

\* Timer.timestamp(): time.monotonic_ns()
timestamp == clock

\* Timer.stopped
stopped == ~ts_stop.none

\* Timer.current()
current == IF ts_stop.none THEN timestamp ELSE ts_stop.val

\* Timer.duration
duration == current - ts_start

\* Timer.since_stop
since_stop == IF ts_stop.none THEN 0 ELSE timestamp - ts_stop.val

\* Timer.since_check
since_check == current - ts_last

\* Timer(): __init__ ends with reset().
InitTimer ==
    /\ NoCall
    /\ NoGenerator
    /\ NoUnrank
    /\ NoHeap
    /\ NoLegacy
    /\ NoFileManager
    /\ NoOption
    /\ clock \in 0..1
    /\ ts_start = clock
    /\ ts_last = clock
    /\ ts_stop = None
    /\ checkpoints = << >>
    /\ t_op = "init"
    /\ t_ret = 0

\* Time passes.
Tick ==
    /\ t_op # "none"
    /\ clock < MaxClock
    /\ clock' = clock + 1
    /\ UNCHANGED << ts_start, ts_last, ts_stop, checkpoints, t_op, t_ret, besideTimer >>

\* Mutant: check() does not look at stopped.
TimerCheckUnguarded ==
    /\ t_op # "none"
    /\ stopped \/ Len(checkpoints) < MaxClock
    /\ t_op' = "check"
    /\ ts_last' = timestamp
    /\ checkpoints' = Append(checkpoints, ts_last' - ts_last)
    /\ t_ret' = ts_last' - ts_last
    /\ UNCHANGED << clock, ts_start, ts_stop, besideTimer >>

\* Timer.check()
TimerCheck ==
    /\ t_op # "none"
    /\ stopped \/ Len(checkpoints) < MaxClock
    /\ t_op' = "check"
    /\ IF stopped
       THEN /\ t_ret' = 0
            /\ UNCHANGED << ts_last, checkpoints >>
       ELSE /\ ts_last' = timestamp
            /\ checkpoints' = Append(checkpoints, ts_last' - ts_last)
            /\ t_ret' = ts_last' - ts_last
    /\ UNCHANGED << clock, ts_start, ts_stop, besideTimer >>

\* Timer.stop()
TimerStop ==
    /\ t_op # "none"
    /\ t_op' = "stop"
    /\ IF stopped
       THEN /\ t_ret' = 0
            /\ UNCHANGED << ts_stop, checkpoints >>
       ELSE /\ ts_stop' = Some(timestamp)
            /\ checkpoints' = Append(checkpoints, ts_stop'.val - ts_last)
            /\ t_ret' = ts_stop'.val - ts_start
    /\ UNCHANGED << clock, ts_start, ts_last, besideTimer >>

\* Timer.reset()
TimerReset ==
    /\ t_op # "none"
    /\ t_op' = "reset"
    /\ ts_start' = timestamp
    /\ ts_last' = ts_start'
    /\ ts_stop' = None
    /\ checkpoints' = << >>
    /\ t_ret' = 0
    /\ UNCHANGED << clock, besideTimer >>

NextTimer == Tick \/ TimerCheck \/ TimerStop \/ TimerReset

SpecTimer == InitTimer /\ [][NextTimer]_vars

\* ------------------------------------------- legacy 1-based index functions
\* toolbox.math.combination: get_combination_index and
\* get_combination_from_index, with values in 1..max_value and indexes from 1
\* in lexicographic order.

\* The loop of get_combination_index:
\* index -= comb(max_value - value, length - idx); a value lower than 1
\* raises, and so does math.comb with a negative argument.
RECURSIVE index_loop(_, _, _, _)
index_loop(s, max_value, idx, index) ==
    IF idx >= Len(s) THEN [err |-> "", val |-> index]
    ELSE LET value == s[idx + 1] IN
         IF value < 1 THEN [err |-> "ValueError", val |-> 0]
         ELSE IF comb_raises(max_value - value, Len(s) - idx) THEN [err |-> "ValueError", val |-> 0]
         ELSE index_loop(s, max_value, idx + 1, index - comb(max_value - value, Len(s) - idx))

get_combination_index(combination, max_value) ==
    LET s == sorted(combination) IN
    IF max_value < 1 THEN [err |-> "ValueError", val |-> 0]
    ELSE IF Len(s) = 0 THEN [err |-> "ValueError", val |-> 0]
    ELSE index_loop(s, max_value, 0, comb(max_value, Len(s)))

\* Mutant: the search stops at the first binomial strictly below idx.
RECURSIVE value_search_strict(_, _, _, _)
value_search_strict(max_value, pos, idx, value) ==
    IF comb_raises(max_value - value, pos) THEN [err |-> "ValueError", value |-> value, val_idx |-> 0]
    ELSE LET tmp_idx == comb(max_value - value, pos) IN
         IF tmp_idx < idx THEN [err |-> "", value |-> value, val_idx |-> tmp_idx]
         ELSE value_search_strict(max_value, pos, idx, value + 1)

\* The while loop of get_combination_from_index: the first value, counted
\* from the one given, whose binomial comb(max_value - value, pos) is at most
\* idx.
RECURSIVE value_search(_, _, _, _)
value_search(max_value, pos, idx, value) ==
    IF comb_raises(max_value - value, pos) THEN [err |-> "ValueError", value |-> value, val_idx |-> 0]
    ELSE LET tmp_idx == comb(max_value - value, pos) IN
         IF tmp_idx <= idx THEN [err |-> "", value |-> value, val_idx |-> tmp_idx]
         ELSE value_search(max_value, pos, idx, value + 1)

\* for pos in range(length, 0, -1): each search starts again from value 0.
RECURSIVE from_index_loop(_, _, _, _)
from_index_loop(max_value, pos, idx, yielded) ==
    IF pos < 1 THEN [err |-> "", val |-> yielded]
    ELSE LET found == value_search(max_value, pos, idx, 0) IN
         IF found.err # "" THEN [err |-> found.err, val |-> yielded]
         ELSE from_index_loop(max_value, pos - 1, idx - found.val_idx, Append(yielded, found.value))

\* list(get_combination_from_index(index, length, max_value))
get_combination_from_index(index, length, max_value) ==
    IF length < 1 THEN [err |-> "ValueError", val |-> << >>]
    ELSE IF max_value < 1 THEN [err |-> "ValueError", val |-> << >>]
    ELSE LET max_index == comb(max_value, length) IN
         IF index < 1 THEN [err |-> "ValueError", val |-> << >>]
         ELSE IF index > max_index THEN [err |-> "ValueError", val |-> << >>]
         ELSE from_index_loop(max_value, length, max_index - index, << >>)

besideLegacy == << gvars, pvars, uvars, hvars, tvars, mvars, cvars >>

NoOthers ==
    /\ NoGenerator
    /\ NoUnrank
    /\ NoHeap
    /\ NoTimer
    /\ NoFileManager
    /\ NoOption

InitIndex ==
    /\ f_name = "get_combination_index"
    /\ f_pc = "call"
    /\ a_combination \in Combinations
    /\ a_max_value \in -1..MaxValue
    /\ a_offset = 0
    /\ a_rank = 0
    /\ a_length = 0
    /\ r_rank = 0
    /\ r_combination = << >>
    /\ NoOthers

InitFromIndex ==
    /\ f_name = "get_combination_from_index"
    /\ f_pc = "call"
    /\ a_combination = << >>
    /\ a_max_value \in -1..MaxValue
    /\ a_offset = 0
    /\ a_rank \in -1..MaxRank
    /\ a_length \in -1..MaxLen
    /\ r_rank = 0
    /\ r_combination = << >>
    /\ NoOthers

InitLegacy == InitIndex \/ InitFromIndex

CallGetCombinationIndex ==
    /\ f_name = "get_combination_index"
    /\ f_pc = "call"
    /\ LET r == get_combination_index(a_combination, a_max_value) IN
        /\ f_pc' = IF r.err = "" THEN "return" ELSE "raise"
        /\ r_rank' = r.val
    /\ UNCHANGED << fargs, a_max_value, r_combination, besideLegacy >>

CallGetCombinationFromIndex ==
    /\ f_name = "get_combination_from_index"
    /\ f_pc = "call"
    /\ LET r == get_combination_from_index(a_rank, a_length, a_max_value) IN
        /\ f_pc' = IF r.err = "" THEN "return" ELSE "raise"
        /\ r_combination' = r.val
    /\ UNCHANGED << fargs, a_max_value, r_rank, besideLegacy >>

NextLegacy == CallGetCombinationIndex \/ CallGetCombinationFromIndex

SpecLegacy == InitLegacy /\ [][NextLegacy]_vars

\* ------------------------------------------------------------ FileManager
\* One FileManager object and the file handles builtins.open gave it.  What
\* the file system does is the choice of the environment: builtins.open
\* returns a handle or raises, a read gives data, gives nothing (the end of
\* the file) or raises, a write succeeds or raises.
MaxHandles == 3
MaxDepth == 2

besideFileManager == << fvars, gvars, pvars, uvars, hvars, lvars, tvars, cvars >>

ReadOutcomes == {"data", "empty", "raise"}

NewHandle == [is_open |-> TRUE, closes |-> 0]

\* FileManager.close(): the handle held, if any, is closed; _file = None.
close(file, all) ==
    [file |-> None,
     handles |-> IF file.none THEN all
                 ELSE [all EXCEPT ![file.val] = [is_open |-> FALSE, closes |-> @.closes + 1]]]

\* Mutant: open() does not close the handle held.
open_leaky(file, all, opened) ==
    IF opened THEN [file |-> Some(Len(all) + 1), handles |-> Append(all, NewHandle), err |-> ""]
    ELSE [file |-> file, handles |-> all, err |-> "OSError"]

\* FileManager.open(): self.close(), then builtins.open, which returns a new
\* handle or raises.
open(file, all, opened) ==
    LET closed == close(file, all) IN
    IF opened
    THEN [file |-> Some(Len(closed.handles) + 1),
          handles |-> Append(closed.handles, NewHandle), err |-> ""]
    ELSE [file |-> closed.file, handles |-> closed.handles, err |-> "OSError"]

\* FileManager.read(): what it raises ("": it returns) and whether it returns
\* None, given what the read on the handle does.
read(file, outcome) ==
    IF file.none THEN [err |-> "ValueError", none |-> FALSE]
    ELSE IF outcome = "raise" THEN [err |-> "OSError", none |-> FALSE]
    ELSE [err |-> "", none |-> outcome = "empty"]

\* FileManager(filename), or FileManager(filename, read=True) whose __init__
\* called open().
InitFileManager ==
    /\ NoCall
    /\ NoGenerator
    /\ NoUnrank
    /\ NoHeap
    /\ NoLegacy
    /\ NoTimer
    /\ NoOption
    /\ m_op = "init"
    /\ m_err = ""
    /\ m_depth = 0
    /\ \/ m_file = None /\ handles = << >>
       \/ m_file = Some(1) /\ handles = << NewHandle >>

\* manager.open(...), also manager(...)
FileOpen ==
    /\ m_op # "none"
    /\ Len(handles) < MaxHandles
    /\ \E opened \in BOOLEAN :
        LET r == open(m_file, handles, opened) IN
        /\ m_file' = r.file
        /\ handles' = r.handles
        /\ m_err' = r.err
    /\ m_op' = "open"
    /\ UNCHANGED << m_depth, besideFileManager >>

\* manager.close()
FileClose ==
    /\ m_op # "none"
    /\ LET r == close(m_file, handles) IN
        /\ m_file' = r.file
        /\ handles' = r.handles
    /\ m_op' = "close"
    /\ m_err' = ""
    /\ UNCHANGED << m_depth, besideFileManager >>

\* manager.read() and manager.write(data): they use the handle held and
\* leave it as it is.
FileReadWrite ==
    /\ m_op # "none"
    /\ m_op' \in {"read", "write"}
    /\ \E outcome \in ReadOutcomes : m_err' = read(m_file, outcome).err
    /\ UNCHANGED << m_file, handles, m_depth, besideFileManager >>

\* manager.read_file() and manager.write_file(data):
\* with self.open(...): return self.read() / self.write(data)
FileReadWriteFile ==
    /\ m_op # "none"
    /\ Len(handles) < MaxHandles
    /\ m_op' \in {"read_file", "write_file"}
    /\ \E opened \in BOOLEAN, outcome \in ReadOutcomes :
        LET o == open(m_file, handles, opened)
            r == read(o.file, outcome)
            c == close(o.file, o.handles)
        IN IF o.err # ""
           THEN /\ m_file' = o.file
                /\ handles' = o.handles
                /\ m_err' = o.err
           ELSE /\ m_file' = c.file
                /\ handles' = c.handles
                /\ m_err' = r.err
    /\ UNCHANGED << m_depth, besideFileManager >>

\* with manager: ...  __enter__ opens the file unless a handle is held.
FileEnter ==
    /\ m_op # "none"
    /\ m_depth < MaxDepth
    /\ Len(handles) < MaxHandles
    /\ m_op' = "enter"
    /\ IF m_file.none
       THEN \E opened \in BOOLEAN :
            LET r == open(m_file, handles, opened) IN
            /\ m_file' = r.file
            /\ handles' = r.handles
            /\ m_err' = r.err
            /\ m_depth' = IF r.err = "" THEN m_depth + 1 ELSE m_depth
       ELSE /\ m_err' = ""
            /\ m_depth' = m_depth + 1
            /\ UNCHANGED << m_file, handles >>
    /\ UNCHANGED besideFileManager

\* The with-block is left: __exit__ closes.
FileExit ==
    /\ m_op # "none"
    /\ m_depth > 0
    /\ m_op' = "exit"
    /\ m_depth' = m_depth - 1
    /\ LET r == close(m_file, handles) IN
        /\ m_file' = r.file
        /\ handles' = r.handles
    /\ m_err' = ""
    /\ UNCHANGED besideFileManager

\* iter(manager): __iter__ returns self.open().
FileIter ==
    /\ m_op # "none"
    /\ Len(handles) < MaxHandles
    /\ \E opened \in BOOLEAN :
        LET r == open(m_file, handles, opened) IN
        /\ m_file' = r.file
        /\ handles' = r.handles
        /\ m_err' = r.err
    /\ m_op' = "iter"
    /\ UNCHANGED << m_depth, besideFileManager >>

\* next(manager): __next__ reads; at the end of the file it closes and
\* raises StopIteration.
FileNext ==
    /\ m_op # "none"
    /\ m_op' = "next"
    /\ \E outcome \in ReadOutcomes :
        LET r == read(m_file, outcome)
            c == close(m_file, handles)
        IN IF r.err = "" /\ r.none
           THEN /\ m_file' = c.file
                /\ handles' = c.handles
                /\ m_err' = "StopIteration"
           ELSE /\ m_err' = r.err
                /\ UNCHANGED << m_file, handles >>
    /\ UNCHANGED << m_depth, besideFileManager >>

NextFileManager ==
    \/ FileOpen
    \/ FileClose
    \/ FileReadWrite
    \/ FileReadWriteFile
    \/ FileEnter
    \/ FileExit
    \/ FileIter
    \/ FileNext

SpecFileManager == InitFileManager /\ [][NextFileManager]_vars

\* ----------------------------------------------------------- ConfigOption
\* One ConfigOption built with the default mapper (passthrough): the values
\* are None or one of 1..MaxChoice, the choices a set of them (empty: the
\* option is not constrained).
MaxChoice == 3

OptionValues == {None} \cup {Some(v) : v \in 1..MaxChoice}

besideOption == << fvars, gvars, pvars, uvars, hvars, lvars, tvars, mvars >>

\* ConfigOption.cast with the passthrough mapper.
cast(value) == IF value.none THEN None ELSE Some(value.val)

\* value in self._choices, for a value other than None
in_choices(value, choices) == value.val \in choices

\* The check that ends __init__.
init_raises(value, default, choices) ==
    /\ choices # {}
    /\ value.none \/ ~in_choices(value, choices)
    /\ default.none \/ ~in_choices(default, choices)

\* ConfigOption.get()
get(value, default) == IF ~value.none THEN value ELSE default

\* ConfigOption(name, value, default, choices=choices): the call, with its
\* arguments.
InitOption ==
    /\ NoCall
    /\ NoGenerator
    /\ NoUnrank
    /\ NoHeap
    /\ NoLegacy
    /\ NoTimer
    /\ NoFileManager
    /\ o_op = "call"
    /\ o_err = ""
    /\ o_value \in OptionValues
    /\ o_default \in OptionValues
    /\ o_choices \in SUBSET (1..(MaxChoice - 1))

\* __init__ casts and stores the value, the default and the choices, then
\* checks them; when it raises there is no option.
OptionInit ==
    /\ o_op = "call"
    /\ o_value' = cast(o_value)
    /\ o_default' = cast(o_default)
    /\ IF init_raises(cast(o_value), cast(o_default), o_choices)
       THEN o_op' = "unbuilt" /\ o_err' = "ValueError"
       ELSE o_op' = "init" /\ o_err' = ""
    /\ UNCHANGED << o_choices, besideOption >>

OptionBuilt == o_op \in {"init", "set", "set_default", "reset"}

\* option.set(value)
OptionSet ==
    /\ OptionBuilt
    /\ o_op' = "set"
    /\ \E v \in OptionValues :
        LET value == cast(v) IN
        IF o_choices # {} /\ value.none /\ o_default.none
        THEN o_err' = "ValueError" /\ UNCHANGED o_value
        ELSE IF o_choices # {} /\ ~value.none /\ ~in_choices(value, o_choices)
        THEN o_err' = "ValueError" /\ UNCHANGED o_value
        ELSE o_err' = "" /\ o_value' = value
    /\ UNCHANGED << o_default, o_choices, besideOption >>

\* option.reset()
OptionReset ==
    /\ OptionBuilt
    /\ o_op' = "reset"
    /\ IF o_choices # {} /\ o_default.none
       THEN o_err' = "ValueError" /\ UNCHANGED o_value
       ELSE /\ o_err' = ""
            /\ o_value' = IF o_choices # {} THEN o_default ELSE None
    /\ UNCHANGED << o_default, o_choices, besideOption >>

\* option.set_default(default)
OptionSetDefault ==
    /\ OptionBuilt
    /\ o_op' = "set_default"
    /\ \E v \in OptionValues :
        LET default == cast(v) IN
        IF o_choices # {} /\ default.none /\ o_value.none
        THEN o_err' = "ValueError" /\ UNCHANGED o_default
        ELSE IF o_choices # {} /\ ~default.none /\ ~in_choices(default, o_choices)
        THEN o_err' = "ValueError" /\ UNCHANGED o_default
        ELSE o_err' = "" /\ o_default' = default
    /\ UNCHANGED << o_value, o_choices, besideOption >>

NextOption == OptionInit \/ OptionSet \/ OptionReset \/ OptionSetDefault

SpecOption == InitOption /\ [][NextOption]_vars

\* ------------------------------------------------- vocabulary of the claims
Returned(name) == f_name = name /\ f_pc = "return"
Raised(name) == f_name = name /\ f_pc = "raise"

Range(s) == {s[i] : i \in DOMAIN s}
StrictlyAscending(s) == \A i \in 1..(Len(s) - 1) : s[i] < s[i + 1]
SetMax(S) == CHOOSE x \in S : \A y \in S : y <= x
SetMin(S) == CHOOSE x \in S : \A y \in S : x <= y

\* The ground values a combination argument can hold, and its k-element subsets.
Ground == 0..MaxValue
KSubsetsOfGround == [k \in 0..MaxLen |-> {T \in SUBSET Ground : Cardinality(T) = k}]
KSubsets(n, k) == {T \in KSubsetsOfGround[k] : T \subseteq 0..(n - 1)}

\* A set of integers as the ascending list of its elements.
RECURSIVE AscendingList(_)
AscendingList(S) ==
    IF S = {} THEN << >>
    ELSE << SetMin(S) >> \o AscendingList(S \ {SetMin(S)})

\* The argument of get_combination_rank is a combination of distinct
\* non-negative values (in any order).
IsSubsetArgument ==
    /\ Cardinality(Range(a_combination)) = Len(a_combination)
    /\ \A i \in DOMAIN a_combination : a_combination[i] >= 0

\* C1: the rank of the combination returned for rank r, length k >= 1 and any
\* offset, taken with the same offset, is r.
RoundTripRankOfUnrank ==
    (Returned("get_combination_from_rank") /\ a_length >= 1)
        => get_combination_rank(r_combination, a_offset) = [err |-> "", val |-> a_rank]

RoundTripRankOfUnrankWitness ==
    /\ Returned("get_combination_from_rank")
    /\ a_rank = 14 /\ a_length = 3 /\ a_offset = 1
    /\ r_combination = << 2, 4, 6 >>

\* C2: unranking the rank of an ascending combination of distinct values of
\* {0..n-1}, with the combination's length, gives the combination back.
RoundTripUnrankOfRank ==
    (/\ Returned("get_combination_rank")
     /\ a_offset = 0
     /\ IsSubsetArgument
     /\ StrictlyAscending(a_combination))
        => get_combination_from_rank(r_rank, Len(a_combination), 0)
               = [err |-> "", val |-> a_combination]

RoundTripUnrankOfRankWitness ==
    /\ Returned("get_combination_rank")
    /\ a_offset = 0
    /\ a_combination = << 1, 3, 5 >>
    /\ r_rank = 14

\* The rank of the ascending list of a set of ground values, offset 0.
RankOfSubset == [T \in SUBSET Ground |-> get_combination_rank(AscendingList(T), 0)]
RankOfSet(T) == RankOfSubset[T]

\* C4: on the k-element subsets of {0..n-1}, k >= 1, get_combination_rank is
\* injective and its image is exactly 0..C(n,k)-1: the rank returned for such
\* a subset lies in that range for every n that holds it, no other subset has
\* that rank, and every rank of the range is the rank of some subset.
RankBijection ==
    (/\ Returned("get_combination_rank")
     /\ a_offset = 0
     /\ Len(a_combination) >= 1
     /\ IsSubsetArgument)
        => LET S == Range(a_combination)
               k == Len(a_combination)
               least == SetMax(S) + 1
           IN /\ \A n \in least..(SetMax(Ground) + 1) : r_rank \in 0..(comb(n, k) - 1)
              /\ \A T \in KSubsetsOfGround[k] :
                     T # S => RankOfSet(T) # [err |-> "", val |-> r_rank]
              /\ \A r \in 0..(comb(least, k) - 1) :
                     \E T \in KSubsets(least, k) :
                         RankOfSet(T) = [err |-> "", val |-> r]

RankBijectionWitness ==
    /\ Returned("get_combination_rank")
    /\ a_offset = 0
    /\ a_combination = << 4, 2, 3 >>
    /\ r_rank = 9

\* C5: the list returned for rank r >= 0, length k >= 0 and any offset has
\* exactly k elements, is strictly ascending and starts at offset or above.
UnrankResultShape ==
    Returned("get_combination_from_rank")
        => /\ Len(r_combination) = a_length
           /\ StrictlyAscending(r_combination)
           /\ a_length >= 1 => r_combination[1] >= a_offset

UnrankResultShapeWitness ==
    /\ Returned("get_combination_from_rank")
    /\ a_rank = 0 /\ a_length = 2 /\ a_offset = -1
    /\ r_combination = << -1, 0 >>

\* The 0-based position a value of the list takes once the list is sorted
\* ascending (equal values keep their order), and the sum of the binomials
\* C(value - offset, position + 1) over the list.
SortedPosition(c, i) ==
    Cardinality({j \in DOMAIN c : c[j] < c[i] \/ (c[j] = c[i] /\ j < i)})

RECURSIVE BinomialSum(_, _, _)
BinomialSum(c, offset, i) ==
    IF i = 0 THEN 0
    ELSE BinomialSum(c, offset, i - 1) + comb(c[i] - offset, SortedPosition(c, i) + 1)

IndexPermutations ==
    [k \in 0..MaxLen |-> {p \in [1..k -> 1..k] : \A i, j \in 1..k : p[i] = p[j] => i = j}]

\* C6: for a list of integers all >= offset, in any order, the rank is the sum
\* over the positions i of the sorted list of C(s_i - offset, i + 1), and every
\* permutation of the list has the same rank.
RankFormula ==
    (/\ f_name = "get_combination_rank"
     /\ f_pc # "call"
     /\ \A i \in DOMAIN a_combination : a_combination[i] >= a_offset)
        => /\ f_pc = "return"
           /\ r_rank = BinomialSum(a_combination, a_offset, Len(a_combination))
           /\ \A p \in IndexPermutations[Len(a_combination)] :
                  get_combination_rank([i \in DOMAIN a_combination |-> a_combination[p[i]]],
                                       a_offset) = [err |-> "", val |-> r_rank]

RankFormulaWitness ==
    /\ Returned("get_combination_rank")
    /\ a_offset = 1
    /\ a_combination = << 5, 1, 3 >>
    /\ r_rank = 5

\* a precedes b when compared by largest element first, then second largest,
\* and so on (a and b have the same number of elements).
RECURSIVE ColexLess(_, _)
ColexLess(a, b) ==
    IF a = {} \/ b = {} THEN FALSE
    ELSE \/ SetMax(a) < SetMax(b)
         \/ SetMax(a) = SetMax(b) /\ ColexLess(a \ {SetMax(a)}, b \ {SetMax(b)})

\* C7: for fixed k >= 1, a k-element combination that precedes another in
\* colexicographic order has the smaller rank.
RankMonotonic ==
    (/\ Returned("get_combination_rank")
     /\ a_offset = 0
     /\ Len(a_combination) >= 1
     /\ IsSubsetArgument)
        => \A T \in KSubsetsOfGround[Len(a_combination)] :
               /\ ColexLess(Range(a_combination), T) => r_rank < RankOfSet(T).val
               /\ ColexLess(T, Range(a_combination)) => RankOfSet(T).val < r_rank

RankMonotonicWitness ==
    /\ Returned("get_combination_rank")
    /\ a_offset = 0
    /\ a_combination = << 0, 3, 4 >>
    /\ r_rank = 7

\* C8: rank 0 of length k >= 1 is [0..k-1], and the last rank C(n,k)-1 of the
\* (n,k) space, n >= k, is [n-k..n-1].
UnrankBoundary ==
    (/\ Returned("get_combination_from_rank")
     /\ a_offset = 0
     /\ a_length >= 1)
        => /\ a_rank = 0 => r_combination = [i \in 1..a_length |-> i - 1]
           /\ \A n \in a_length..(MaxRank + 1) :
                  a_rank = comb(n, a_length) - 1
                      => r_combination = [i \in 1..a_length |-> n - a_length + i - 1]

UnrankBoundaryWitness ==
    /\ Returned("get_combination_from_rank")
    /\ a_offset = 0 /\ a_length = 3 /\ a_rank = 19
    /\ r_combination = << 3, 4, 5 >>

\* C10: when an element of the combination is below the offset, the call
\* raises and returns no rank, whatever the other elements and their order.
RankRejectsNegative ==
    (/\ f_name = "get_combination_rank"
     /\ f_pc # "call"
     /\ \E i \in DOMAIN a_combination : a_combination[i] - a_offset < 0)
        => f_pc = "raise"

RankRejectsNegativeWitness ==
    /\ Raised("get_combination_rank")
    /\ a_offset = 1
    /\ a_combination = << 5, 0, 3 >>

\* The generator has started: next() was called on it at least once.
Started == g_pc \in {"suspended", "done", "raised"}

\* The call get_combinations(n, k) of a bare count, every other argument at
\* its default.
DefaultCall ==
    /\ g_values.kind = "int"
    /\ g_start = 0 /\ g_stop = None /\ g_step = 1 /\ g_offset = 0
    /\ g_indexes = NoIndexes

\* C3: get_combinations(n, k), n >= 1 and 1 <= k <= n, yields exactly C(n,k)
\* items, the i-th (from 0) being the combination of rank i; for (5, 3) these
\* are the ten lists of the documentation, in that order.
EnumeratorSlicing ==
    (/\ Started
     /\ DefaultCall
     /\ g_values.n >= 1
     /\ 1 <= g_length /\ g_length <= g_values.n)
        => /\ g_pc # "raised"
           /\ Len(g_yielded) <= comb(g_values.n, g_length)
           /\ g_pc = "done" => Len(g_yielded) = comb(g_values.n, g_length)
           /\ \A i \in 1..Len(g_yielded) :
                  g_yielded[i] = get_combination_from_rank(i - 1, g_length, 0).val
           /\ (g_pc = "done" /\ g_values.n = 5 /\ g_length = 3)
                  => g_yielded = << << 0, 1, 2 >>, << 0, 1, 3 >>, << 0, 2, 3 >>,
                                    << 1, 2, 3 >>, << 0, 1, 4 >>, << 0, 2, 4 >>,
                                    << 1, 2, 4 >>, << 0, 3, 4 >>, << 1, 3, 4 >>,
                                    << 2, 3, 4 >> >>

EnumeratorSlicingWitness ==
    /\ g_pc = "done"
    /\ DefaultCall
    /\ g_values.n = 5 /\ g_length = 3
    /\ Len(g_yielded) = 10

\* The lookups of the claim: the index table if one is given, the value
\* source if it is a collection.
IndexOf(indexes, position) == IF indexes.none THEN position ELSE indexes.items[position]
ValueOf(values, key) == IF values.kind = "int" THEN key ELSE values.items[key]

\* C9: the item yielded for rank r is the combination of rank r (offset 0)
\* with every position p replaced by values[indexes[p]] + offset.
EnumeratorTranslation ==
    Started =>
        \A i \in 1..Len(g_yielded) :
            LET r == g_frame.start + (i - 1) * g_frame.step
                c == get_combination_from_rank(r, g_length, 0).val
            IN g_yielded[i] =
                   [p \in 1..Len(c) |-> ValueOf(g_values, IndexOf(g_indexes, c[p])) + g_offset]

EnumeratorTranslationWitness ==
    /\ g_pc = "done"
    /\ g_values = DictSource(4) /\ g_indexes = KeyIndexes(4)
    /\ g_length = 2 /\ g_offset = 1 /\ g_start = 0
    /\ Len(g_yielded) = 6
    /\ g_yielded[6] = << 5, 9 >>

\* The call of get_combination_rank has ended, by a return or by an exception.
RankCallEnded == f_name = "get_combination_rank" /\ f_pc # "call"
UnrankCallEnded == f_name = "get_combination_from_rank" /\ f_pc # "call"

\* C11, as claimed: the call fails when the combination is empty.
RankRejectsEmpty ==
    (RankCallEnded /\ a_combination = << >>) => f_pc = "raise"

\* C11, amended: the call does not fail when the combination is empty; the
\* empty combination is ranked like any other and the call returns.
RankAcceptsEmpty ==
    (RankCallEnded /\ a_combination = << >>) => f_pc = "return"

RankAcceptsEmptyWitness ==
    /\ Returned("get_combination_rank")
    /\ a_combination = << >>
    /\ a_offset = 0

\* C12: the rank of the empty combination is 0 for every offset.
RankOfEmptyIsZero ==
    (RankCallEnded /\ a_combination = << >>) => (f_pc = "return" /\ r_rank = 0)

RankOfEmptyIsZeroWitness ==
    /\ Returned("get_combination_rank")
    /\ a_combination = << >>
    /\ a_offset = 1
    /\ r_rank = 0

\* C13: length 0 gives the empty list for every rank >= 0 and every offset.
UnrankLengthZero ==
    (UnrankCallEnded /\ a_length = 0 /\ a_rank >= 0)
        => (f_pc = "return" /\ r_combination = << >>)

UnrankLengthZeroWitness ==
    /\ Returned("get_combination_from_rank")
    /\ a_length = 0 /\ a_rank = 7 /\ a_offset = 1
    /\ r_combination = << >>

\* C14: a negative rank and a negative length are each rejected, whatever the
\* other arguments are; no list is returned.
UnrankRejectsNegative ==
    (UnrankCallEnded /\ (a_rank < 0 \/ a_length < 0)) => f_pc = "raise"

UnrankRejectsNegativeWitness ==
    /\ Raised("get_combination_from_rank")
    /\ a_rank = 5 /\ a_length = -1

\* The number of combinations of the space of the call, n >= 0 and length >= 0.
NbComb == comb(g_values.n, g_length)

\* The space of the call is not empty: n >= 1 and 1 <= length <= n.
NonEmptySpace == g_values.n >= 1 /\ 1 <= g_length /\ g_length <= g_values.n

\* Every position 0..n-1 has an entry in the index table, if one is given, and
\* that entry is a key of the value source, if it is a collection.
SoundSource ==
    \A p \in 0..(g_values.n - 1) :
        /\ g_indexes.none \/ p \in DOMAIN g_indexes.items
        /\ g_values.kind = "int" \/ IndexOf(g_indexes, p) \in DOMAIN g_values.items

\* The item of rank r: the combination of rank r, offset 0, translated.
ExpectedItem(r) ==
    LET c == get_combination_from_rank(r, g_length, 0).val IN
    [p \in 1..Len(c) |-> ValueOf(g_values, IndexOf(g_indexes, c[p])) + g_offset]

\* A generator pulled until it ends, from the result r of a next(): how it
\* ends and all the items it yields.
RECURSIVE Drain(_, _, _, _, _, _)
Drain(values, length, offset, indexes, r, items) ==
    IF r.pc = "suspended"
    THEN Drain(values, length, offset, indexes,
               later_next(values, length, offset, indexes, r.frame), items \o r.items)
    ELSE [pc |-> r.pc, err |-> r.err, items |-> items \o r.items]

\* The whole run of the call with the arguments of the state, but this start.
RunWithStart(start) ==
    Drain(g_values, g_length, g_offset, g_indexes,
          first_next(g_values, g_length, start, g_stop, g_step, g_offset, g_indexes), << >>)

IsPrefix(s, t) == Len(s) <= Len(t) /\ \A i \in 1..Len(s) : s[i] = t[i]
Ended == g_pc \in {"done", "raised"}

\* C15: with n >= 1, 1 <= k <= n and step # 0, a start >= C(n,k) behaves as
\* start = C(n,k)-1 does: same items in the same order, same end; with stop
\* omitted that is the one item of the last rank.
StartPastEnd ==
    (Started /\ NonEmptySpace /\ g_step # 0 /\ g_start >= NbComb)
        => LET run == RunWithStart(NbComb - 1) IN
           /\ IsPrefix(g_yielded, run.items)
           /\ Ended => (g_yielded = run.items /\ g_pc = run.pc /\ g_err = run.err)
           /\ (g_stop = None /\ SoundSource)
                  => /\ g_pc # "raised"
                     /\ IsPrefix(g_yielded, << ExpectedItem(NbComb - 1) >>)
                     /\ g_pc = "done" => g_yielded = << ExpectedItem(NbComb - 1) >>

StartPastEndWitness ==
    /\ g_pc = "done"
    /\ g_values = IntSource(4) /\ g_length = 2
    /\ g_start = 7 /\ g_stop = None /\ g_step = 1
    /\ g_yielded = << << 2, 3 >> >>

\* The whole run of the call with the arguments of the state, but this step.
RunWithStep(step) ==
    Drain(g_values, g_length, g_offset, g_indexes,
          first_next(g_values, g_length, g_start, g_stop, step, g_offset, g_indexes), << >>)

\* The call got past the check of the range: the space is not empty, the
\* clamped start is >= 0 and the clamped stop >= -1; its lookups are defined.
WalkStarted ==
    /\ Started
    /\ NonEmptySpace
    /\ SoundSource
    /\ g_frame.start >= 0 /\ g_frame.stop >= -1

\* The walk of the claim, from the clamped start and stop: the i-th rank
\* (from 1) and whether a rank is still in the walk.
WalkDescends == g_frame.start > g_frame.stop
WalkRank(i) ==
    IF WalkDescends THEN g_frame.start - (i - 1) * abs(g_step)
    ELSE g_frame.start + (i - 1) * abs(g_step)
InWalk(r) == IF WalkDescends THEN r > g_frame.stop ELSE r < g_frame.stop

\* The items yielded are those of the walk, in its order; the generator ends
\* when the walk does, without raising; the opposite step gives the same run.
FollowsWalk ==
    /\ g_pc # "raised"
    /\ \A i \in 1..Len(g_yielded) :
           InWalk(WalkRank(i)) /\ g_yielded[i] = ExpectedItem(WalkRank(i))
    /\ g_pc = "done" => ~InWalk(WalkRank(Len(g_yielded) + 1))
    /\ LET run == RunWithStep(0 - g_step) IN
       /\ IsPrefix(g_yielded, run.items)
       /\ Ended => (g_yielded = run.items /\ g_pc = run.pc /\ g_err = run.err)

\* C16, as claimed: for every step the ranks yielded are start, start -|step|,
\* ... while > stop when start > stop, and start, start + |step|, ... while
\* < stop otherwise, whatever the sign of the step.
WalkDirection == WalkStarted => FollowsWalk

\* C16, amended: the same for every step other than 0; with step 0 the first
\* next() raises ValueError (range() rejects a step of 0) and yields nothing.
WalkDirectionNonZeroStep ==
    WalkStarted =>
        IF g_step # 0 THEN FollowsWalk
        ELSE g_pc = "raised" /\ g_err = "ValueError" /\ g_yielded = << >>

WalkDirectionNonZeroStepWitness ==
    /\ g_pc = "done"
    /\ g_values = IntSource(4) /\ g_length = 2
    /\ g_start = 5 /\ g_stop = Some(0) /\ g_step = 2
    /\ g_yielded = << << 2, 3 >>, << 0, 3 >>, << 0, 2 >> >>

\* C17: with n >= 1 and length >= 1, a start < 0 or a stop < -1 makes the
\* generator raise ValueError without yielding anything; a stop of -1 is not
\* rejected: a descending walk over a non-empty space then ends after rank 0.
RangeErrors ==
    (Started /\ g_values.n >= 1 /\ g_length >= 1)
        => /\ (g_start < 0 \/ (~g_stop.none /\ g_stop.val < -1))
                  => (g_pc = "raised" /\ g_err = "ValueError" /\ g_yielded = << >>)
           /\ (/\ g_stop = Some(-1) /\ g_start >= 0 /\ g_step # 0
               /\ NonEmptySpace /\ SoundSource)
                  => /\ g_pc # "raised"
                     /\ Len(g_yielded) >= 1
                     /\ (g_pc = "done" /\ abs(g_step) = 1)
                            => g_yielded[Len(g_yielded)] = ExpectedItem(0)

RangeErrorsWitness ==
    /\ g_pc = "raised" /\ g_err = "ValueError"
    /\ g_values = IntSource(4) /\ g_length = 2
    /\ g_start = 1 /\ g_stop = Some(-2) /\ g_step = 1
    /\ g_yielded = << >>

RangeErrorsAcceptedWitness ==
    /\ g_pc = "done"
    /\ g_values = IntSource(4) /\ g_length = 2
    /\ g_start = 2 /\ g_stop = Some(-1) /\ g_step = 1
    /\ g_yielded = << << 1, 2 >>, << 0, 2 >>, << 0, 1 >> >>

\* C18: with an empty ground set (a count of 0 or an empty collection) or a
\* length of 0, the generator ends at the first next() without yielding and
\* without raising, whatever the other arguments are.
DegenerateSpace ==
    (Started /\ (g_values.n = 0 \/ g_length = 0))
        => (g_pc = "done" /\ g_err = "" /\ g_yielded = << >>)

DegenerateSpaceWitness ==
    /\ g_pc = "done"
    /\ g_values = IntSource(0) /\ g_length = 2
    /\ g_start = -1 /\ g_stop = Some(-2) /\ g_step = 0
    /\ g_yielded = << >>

\* The caller passed a start < 0 or a stop < -1 for a space with n >= 1 and
\* length >= 1.
InvalidRangeCall ==
    /\ g_values.n >= 1 /\ g_length >= 1
    /\ g_start < 0 \/ (~g_stop.none /\ g_stop.val < -1)

\* C19, as claimed: the error is raised by the call itself, so no such call
\* returns a generator object.
ErrorRaisedByCall == InvalidRangeCall => g_pc # "created"

\* C19, amended: the call returns a generator object without raising; the
\* error is raised by the first next() on it, before any item is yielded.
ErrorRaisedByFirstNext ==
    [][InvalidRangeCall =>
          /\ g_pc = "call" => (g_pc' = "created" /\ g_err' = "")
          /\ g_pc = "created"
                 => (g_pc' = "raised" /\ g_err' = "ValueError" /\ g_yielded' = << >>)]_vars

ErrorRaisedByFirstNextWitness ==
    /\ g_pc = "raised" /\ g_err = "ValueError"
    /\ g_values = IntSource(5) /\ g_length = 3
    /\ g_start = -1 /\ g_stop = None /\ g_step = 1
    /\ g_yielded = << >>

\* What a generator object at pc with this frame yields at its next next().
YieldsNext(pc, frame) ==
    IF pc = "created"
    THEN first_next(g_values, g_length, g_start, g_stop, g_step, g_offset, g_indexes).items
    ELSE IF pc = "suspended"
    THEN later_next(g_values, g_length, g_offset, g_indexes, frame).items
    ELSE << >>

\* The item that follows the yielded ones in the sequence items, if any.
ItemAfter(yielded, items) ==
    IF Len(yielded) < Len(items) THEN << items[Len(yielded) + 1] >> ELSE << >>

EnumeratorEnded(e) == e.pc \in {"done", "raised"}

\* C20: two generator objects of calls with equal arguments yield identical
\* sequences however the pulls are interleaved: at every moment the items of
\* one are a prefix of the items of the other, once both ended they yielded
\* the same items and ended alike, and what each yields next is the item that
\* follows its own items in the sequence of the other, whatever the position
\* of the other.
PairDeterminism ==
    \A i \in DOMAIN enumerators :
        LET e == enumerators[i]
            whole == RunWithStart(g_start)
        IN /\ IsPrefix(g_yielded, e.yielded) \/ IsPrefix(e.yielded, g_yielded)
           /\ (Ended /\ EnumeratorEnded(e))
                  => (e.yielded = g_yielded /\ e.pc = g_pc /\ e.err = g_err)
           /\ IsPrefix(e.yielded, whole.items)
           /\ IsPrefix(g_yielded, whole.items)
           /\ YieldsNext(e.pc, e.frame) = ItemAfter(e.yielded, whole.items)
           /\ g_pc # "call" => YieldsNext(g_pc, g_frame) = ItemAfter(g_yielded, whole.items)
           /\ Len(e.yielded) < Len(g_yielded)
                  => YieldsNext(e.pc, e.frame) = << g_yielded[Len(e.yielded) + 1] >>
           /\ Len(g_yielded) < Len(e.yielded)
                  => YieldsNext(g_pc, g_frame) = << e.yielded[Len(g_yielded) + 1] >>

\* The first object is suspended after two items while the second one, called
\* later, has been pulled to its end and yielded at least three.
PairDeterminismWitness ==
    /\ Len(enumerators) = 1
    /\ g_pc = "suspended" /\ Len(g_yielded) = 2
    /\ enumerators[1].pc = "done" /\ Len(enumerators[1].yielded) >= 3

\* The full enumeration get_combinations(n, k), every other argument at its
\* default, for the n and k of the workers.
FullEnumeration ==
    [n \in 1..(MaxLen + 1) |-> [k \in 1..MaxLen |->
        Drain(IntSource(n), k, 0, NoIndexes,
              first_next(IntSource(n), k, 0, None, 1, 0, NoIndexes), << >>).items]]

\* The k-subsets of {0..n-1} as ascending lists.
KSubsetLists ==
    [n \in 1..(MaxLen + 1) |-> [k \in 1..MaxLen |-> {AscendingList(T) : T \in KSubsets(n, k)}]]

\* The items of ranks from..to-1 of a sequence indexed by rank + 1.
Slice(items, from, to) == [j \in 1..(to - from) |-> items[from + j]]

\* The items the workers 1..i produced so far, worker after worker.
RECURSIVE ProducedBy(_)
ProducedBy(i) ==
    IF i = 0 THEN << >> ELSE ProducedBy(i - 1) \o enumerators[i].yielded

AllWorkersDone == \A i \in DOMAIN enumerators : enumerators[i].pc = "done"

\* C21: under every interleaving no worker raises, the items of worker i are
\* a prefix of the slice [b_i, b_{i+1}) of the full enumeration and the whole
\* slice once it is done, every item produced is a k-subset of {0..n-1} as an
\* ascending list, no combination is ever produced twice, and once every
\* worker is done every k-subset of {0..n-1} has been produced exactly once.
PartitionedEnumeration ==
    LET full == FullEnumeration[g_values.n][g_length]
        produced == ProducedBy(Len(enumerators))
        subsets == KSubsetLists[g_values.n][g_length]
    IN /\ \A i \in DOMAIN enumerators :
           LET e == enumerators[i] IN
           /\ e.pc # "raised"
           /\ IsPrefix(e.yielded, Slice(full, e.start, e.stop))
           /\ e.pc = "done" => e.yielded = Slice(full, e.start, e.stop)
       /\ Range(produced) \subseteq subsets
       /\ Cardinality(Range(produced)) = Len(produced)
       /\ AllWorkersDone => Range(produced) = subsets

\* Three workers over the six pairs of {0..3} are all done, two items each.
PartitionedEnumerationWitness ==
    /\ g_values = IntSource(4) /\ g_length = 2
    /\ Len(enumerators) = 3
    /\ AllWorkersDone
    /\ \A i \in DOMAIN enumerators : Len(enumerators[i].yielded) = 2

\* floor division n // d is exact.
Exact(n, d) == d # 0 /\ n % d = 0

\* C28: in the first loop b = C(val+length, length) and
\* binomial = C(val+length-1, length); before the update of the for loop
\* binomial = C(val+index, index+1) and after each update of the descending
\* loops binomial = C(val+index-1, index); every division about to be made is
\* exact with a divisor >= 1; val and the residual rank never become negative;
\* the list returned is the one the whole function computes.
IncrementalBinomial ==
    /\ u_pc = "first_loop" =>
        /\ u_b = comb(u_val + a_length, a_length)
        /\ u_binomial = comb(u_val + a_length - 1, a_length)
        /\ u_b <= u_rank => (u_val + 1 >= 1 /\ Exact(u_b * (u_val + 1 + a_length), u_val + 1))
    /\ (u_pc = "for_loop" /\ u_index > 1) =>
        /\ u_binomial = comb(u_val + u_index, u_index + 1)
        /\ u_val + u_index >= 1
        /\ Exact(u_binomial * (u_index + 1), u_val + u_index)
        /\ u_rank - u_binomial >= 0
    /\ u_pc = "inner_loop" =>
        /\ u_binomial = comb(u_val + u_index - 1, u_index)
        /\ u_binomial > u_rank =>
            /\ u_val - 1 >= 0
            /\ u_val - 1 + u_index >= 1
            /\ Exact(u_binomial * (u_val - 1), u_val - 1 + u_index)
    /\ u_pc # "none" => (u_val >= 0 /\ u_rank >= 0)
    /\ u_pc = "end" =>
        /\ u_rank - u_binomial >= 0
        /\ r_combination = get_combination_from_rank(a_rank, a_length, a_offset).val

\* The call of rank 20 and length 3 returned: the first loop took val up to 4
\* and the inner loop took it down to 0.
IncrementalBinomialWitness ==
    /\ u_pc = "end" /\ f_pc = "return"
    /\ a_rank = 20 /\ a_length = 3 /\ a_offset = 0
    /\ u_val = 0 /\ u_b = 35
    /\ r_combination = << 0, 1, 6 >>

\* The generator finished: it is exhausted or it raised.
Finished == g_pc \in {"done", "raised"}

\* C(n, length), 0 where math.comb is not defined.
SpaceSize == IF comb_raises(g_values.n, g_length) THEN 0 ELSE comb(g_values.n, g_length)

\* The statement by statement run agrees with the functions: a call returns
\* the list get_combination_from_rank computes, and a finished generator
\* yielded the items of the whole run and ended as it does.
StepwiseAgrees ==
    /\ (g_pc = "calling" /\ f_pc = "return")
           => r_combination = get_combination_from_rank(a_rank, a_length, a_offset).val
    /\ Finished => LET run == RunWithStart(g_start) IN
                   g_yielded = run.items /\ g_err = run.err /\ g_pc = run.pc

\* C22: a generator pulled repeatedly eventually is exhausted or raises, it
\* never has yielded more than C(n, length) items, and every call of
\* get_combination_from_rank it makes eventually returns or raises.
Termination ==
    /\ <>Finished
    /\ [](Len(g_yielded) <= SpaceSize)
    /\ (g_pc = "calling" /\ f_pc = "call") ~> (g_pc = "calling" /\ f_pc \in {"return", "raise"})

\* The descending walk from rank 2 down to rank 0 over the triples of {0..4}
\* ended after three items, each from a call that ran to its return.
TerminationWitness ==
    /\ g_pc = "done" /\ g_values = IntSource(5) /\ g_length = 3
    /\ g_start = 2 /\ g_stop = Some(-1) /\ g_step = 1
    /\ Len(g_yielded) = 3

\* C23: get_combination_rank leaves the caller's list as it was, same elements
\* in the same order; get_combinations leaves the value source and the index
\* table as they were; every list handed to the caller is a new object, and
\* whatever the caller did to the earlier ones, a later call returns the list
\* of its rank and the generator yields the items of its run.
NoSideEffects ==
    /\ [][/\ f_name = "get_combination_rank" => heap'[1] = heap[1]
          /\ a_combination' = a_combination
          /\ g_values' = g_values
          /\ g_indexes' = g_indexes
          /\ held' # held =>
              /\ held'[Len(held')] \notin Range(held)
              /\ \A i \in DOMAIN heap : heap'[i] = heap[i]
              /\ heap'[held'[Len(held')]] =
                     IF f_name = "get_combination_from_rank" THEN r_combination'
                     ELSE g_yielded'[Len(g_yielded')]]_vars
    /\ [](/\ Cardinality(Range(held)) = Len(held)
          /\ f_name = "get_combination_rank" => heap[1] = a_combination
          /\ (f_name = "get_combination_from_rank" /\ f_pc = "return")
                 => r_combination = get_combination_from_rank(a_rank, a_length, a_offset).val
          /\ g_pc \in {"suspended", "done", "raised"}
                 => IsPrefix(g_yielded, RunWithStart(g_start).items))

\* The caller emptied the first list the generator yielded, and the second
\* list yielded is another object that holds the item of the second rank.
NoSideEffectsWitness ==
    /\ g_pc = "suspended" /\ g_length = 2 /\ g_start = 0
    /\ Len(held) = 2
    /\ heap[held[1]] = << >>
    /\ heap[held[2]] = g_yielded[2]
    /\ g_yielded[1] # << >>

\* C24: from a stopped timer, a step that is not reset() leaves started_at,
\* checked_at, stopped_at and the checkpoints as they were, duration stays
\* stopped_at - started_at, since_stop does not shrink, and a stop() or
\* check() returns 0; reset() makes the timer run again with no checkpoints
\* and started_at = checked_at = the current time.
StoppedUntilReset ==
    [][/\ (stopped /\ t_op' # "reset") =>
            /\ stopped'
            /\ ts_start' = ts_start /\ ts_last' = ts_last /\ ts_stop' = ts_stop
            /\ checkpoints' = checkpoints
            /\ duration' = duration
            /\ duration' = ts_stop.val - ts_start
            /\ since_stop' >= since_stop
            /\ since_stop' = clock' - ts_stop.val
            /\ clock' = clock => (t_op' \in {"stop", "check"} /\ t_ret' = 0)
       /\ (clock' = clock /\ t_op' = "reset") =>
            /\ ~stopped'
            /\ checkpoints' = << >>
            /\ ts_start' = clock' /\ ts_last' = clock'
            /\ duration' = 0]_vars

\* After stop() at time 1 the clock went on to 3 and check() returned 0: the
\* duration is still 1 and since_stop is 2.
StoppedUntilResetWitness ==
    /\ stopped /\ t_op = "check" /\ t_ret = 0
    /\ ts_start = 0 /\ ts_stop = Some(1) /\ clock = 3
    /\ duration = 1 /\ since_stop = 2
    /\ Len(checkpoints) = 2

OpenHandles == {i \in DOMAIN handles : handles[i].is_open}

\* C25: at most one handle is open and it is the one the manager holds; no
\* handle was closed twice, and a handle that is not open was closed once; a
\* step that opens a handle leaves every earlier handle closed; close() on a
\* closed manager changes nothing; after the with-block is left, after
\* read_file() and write_file(), and after the iteration is exhausted no
\* handle is open and none is held.
HandleLifecycle ==
    /\ [](/\ Cardinality(OpenHandles) <= 1
          /\ \A i \in OpenHandles : m_file = Some(i)
          /\ ~m_file.none => m_file.val \in OpenHandles
          /\ \A i \in DOMAIN handles :
              /\ handles[i].closes <= 1
              /\ ~handles[i].is_open => handles[i].closes = 1
          /\ (m_op \in {"exit", "read_file", "write_file", "close"} \/ m_err = "StopIteration")
                 => (m_file.none /\ OpenHandles = {}))
    /\ [][/\ Len(handles') > Len(handles) =>
               \A i \in DOMAIN handles : ~handles'[i].is_open /\ handles'[i].closes = 1
          /\ (m_op' = "close" /\ m_file.none) => (handles' = handles /\ m_file' = m_file)]_vars

\* The manager opened three handles in turn; the first two are closed, once
\* each, and it left a with-block, which closed the third.
HandleLifecycleWitness ==
    /\ Len(handles) = 3
    /\ m_op = "exit"
    /\ m_file.none
    /\ \A i \in DOMAIN handles : ~handles[i].is_open /\ handles[i].closes = 1

\* The combination passed is a k-element subset of 1..max_value, in any order.
IsLegacySubset(c, max_value) ==
    /\ Len(c) >= 1
    /\ \A i \in DOMAIN c : c[i] \in 1..max_value
    /\ \A i, j \in DOMAIN c : i # j => c[i] # c[j]

InsideTheSpace ==
    /\ g_pc = "calling" =>
        /\ g_length >= 0
        /\ a_rank \in 0..(comb(nb_values_of(g_values), g_length) - 1)
        /\ a_length = g_length
        /\ f_pc # "raise"
        /\ f_pc = "return" =>
            \A i \in DOMAIN r_combination : r_combination[i] \in 0..(nb_values_of(g_values) - 1)
    /\ g_err \notin {"IndexError", "KeyError"}
    /\ g_pc = "raised" => g_yielded = << >>

\* A descending walk with a start past the last rank, clamped, and a step of
\* 2 over the C(4, 2) = 6 combinations of a list: rank 5 was yielded and rank
\* 3 was just computed.
InsideTheSpaceWitness ==
    /\ g_pc = "calling"
    /\ f_pc = "return"
    /\ g_values = ListSource(4)
    /\ g_length = 2
    /\ g_start = 7
    /\ g_stop = Some(-1)
    /\ g_frame.step = -2
    /\ a_rank = 3
    /\ Len(g_yielded) = 1

\* C29, as claimed: with a length >= 0 and a step other than 0 (math.comb and
\* range() raise nothing then), get_combinations raises ValueError only if
\* the caller passed start < 0 or stop < -1; and with n >= 1, length > n,
\* start = 0 and no stop, the generator ends without an item and without an
\* error.
RangeErrorsOnlyOutOfRange ==
    /\ (g_pc = "raised" /\ g_err = "ValueError" /\ g_length >= 0 /\ g_step # 0
            /\ g_yielded = << >>)
        => (g_start < 0 \/ (~g_stop.none /\ g_stop.val < -1))
    /\ (g_pc \notin {"call", "created"} /\ g_values.n >= 1 /\ g_length > g_values.n
            /\ g_start = 0 /\ g_stop.none /\ g_step # 0)
        => (g_pc = "done" /\ g_err = "" /\ g_yielded = << >>)

\* C30, as claimed: for an option with choices, after the construction and
\* after every set(), set_default() and reset(), get() returns a member of
\* the choices; a call that raises leaves value and default unchanged.
ChoicesInvariant ==
    /\ []((OptionBuilt /\ o_choices # {})
            => (~get(o_value, o_default).none
                    /\ in_choices(get(o_value, o_default), o_choices)))
    /\ [][(OptionBuilt /\ o_err' = "ValueError")
            => (o_value' = o_value /\ o_default' = o_default)]_vars

====
